---------------------------- MODULE Spec2Model ----------------------------
(***************************************************************************)
(* Model of hid-device-report: the descriptor encoding pipeline            *)
(* (Collection -> TagGroup -> Tag sequence -> deduplicated Tag sequence -> *)
(* ShortItems -> bytes) and the bit-level ReportVariable.                  *)
(*                                                                         *)
(* Representation of the Rust values:                                      *)
(*   u32      a function 0..31 -> {0,1}, bit 0 the least significant       *)
(*            (TLC integers stop at 2^31-1, a u32 does not);               *)
(*   i32, i8, u16, u8   TLA+ integers in the type's range;                 *)
(*   Option   None is <<>>, Some(x) is <<x>>;                              *)
(*   enum     a record with a "kind"/"variant" field and the payload;      *)
(*   Vec, slice, Box<[T]>   sequences.                                     *)
(* Integer overflow is build dependent in Rust: with overflow checks (the  *)
(* debug profile) the operation panics, without them (release) it wraps.   *)
(* The variable overflow_checks is the build; both are explored.           *)
(***************************************************************************)
EXTENDS Integers, Sequences, FiniteSets, TLC

VARIABLES
    pc,                \* position of the modelled call
    overflow_checks,   \* TRUE: overflow panics (debug); FALSE: wraps (release)
    collection,        \* Collection::into_bytes: self
    tag_groups,        \*   let tag_groups
    tags,              \*   let tags (TagOptimizer.0 before remove_duplicates)
    tags_cleaned,      \*   let tags_cleaned (TagOptimizer.0 afterwards)
    tag_items,         \*   let tag_items (ShortItems.0)
    bytes,             \*   the returned Box<[u8]>
    rv,                \* a ReportVariable, None before ReportVariable::new
    rv_args,           \* the arguments of the last ReportVariable call
    rv_result,         \* its result: "Ok", an error name or "panic"
    format,            \* a ReportFormat, None before it is constructed
    format_log,        \* the items pushed to it and the value written to each field
    format_result,     \* the result of the last ReportFormat call
    format_bytes,      \* the Box<[u8]> returned by ReportFormat::into_bytes
    report_iter,       \* a ReportIter: its stack of slice iterators
    tag_iter,          \* a TagGroupIterator
    yielded,           \* what next() of the iterators has returned so far
    ids,               \* the result of input_ids
    field_value,       \* a value of a field type: a UnitExponent or ReportFlags
    field_args         \* the call that made it and its arguments

vars == <<pc, overflow_checks, collection, tag_groups, tags, tags_cleaned,
          tag_items, bytes, rv, rv_args, rv_result,
          format, format_log, format_result, format_bytes, report_iter, tag_iter, yielded, ids,
          field_value, field_args>>

pipeline_vars == <<collection, tag_groups, tags, tags_cleaned, tag_items, bytes>>
variable_vars == <<rv, rv_args, rv_result>>
format_vars == <<format, format_log, format_result, format_bytes>>
iter_vars == <<report_iter, tag_iter, yielded, ids>>
field_vars == <<field_value, field_args>>

-----------------------------------------------------------------------------
(* Option<T> *)

None == <<>>
Some(x) == <<x>>
is_some(opt) == Len(opt) = 1
is_none(opt) == Len(opt) = 0
unwrap(opt) == opt[1]

-----------------------------------------------------------------------------
(* Fixed-width integers *)

RECURSIVE BitsToNat(_, _, _)
\* the number held by the n bits x[lo], x[lo+1], ... (x[lo] least significant)
BitsToNat(x, lo, n) ==
    IF n = 0 THEN 0 ELSE x[lo] + 2 * BitsToNat(x, lo + 1, n - 1)

\* n as u32, for 0 <= n < 2^31
U32FromNat(n) == [i \in 0..31 |-> IF i = 31 THEN 0 ELSE (n \div (2^i)) % 2]

\* `v as u32` for a signed v (i8, i16 or i32): two's complement, sign-extended
I32AsU32(v) ==
    IF v >= 0 THEN U32FromNat(v)
    ELSE [i \in 0..31 |->
            IF i = 31 THEN 1 ELSE (((v + 2147483647) + 1) \div (2^i)) % 2]

U32Zero == [i \in 0..31 |-> 0]
U32Max == [i \in 0..31 |-> 1]

\* u8::try_from(value).is_ok() and u16::try_from(value).is_ok()
FitsU8(x) == \A i \in 8..31 : x[i] = 0
FitsU16(x) == \A i \in 16..31 : x[i] = 0

\* u32::to_le_bytes
to_le_bytes(x) == [k \in 1..4 |-> BitsToNat(x, 8 * (k - 1), 8)]

\* bitwise operators on u32
U32And(x, y) == [i \in 0..31 |-> x[i] * y[i]]
U32Or(x, y) == [i \in 0..31 |-> IF x[i] + y[i] > 0 THEN 1 ELSE 0]
U32Not(x) == [i \in 0..31 |-> 1 - x[i]]
\* x.wrapping_shl(k) and x.wrapping_shr(k) for 0 <= k < 32
U32Shl(x, k) == [i \in 0..31 |-> IF i >= k THEN x[i - k] ELSE 0]
U32Shr(x, k) == [i \in 0..31 |-> IF i + k <= 31 THEN x[i + k] ELSE 0]

\* x + y on u32: the wrapped sum and whether it overflowed
U32Add(x, y) ==
    LET lo == BitsToNat(x, 0, 16) + BitsToNat(y, 0, 16)
        hi == BitsToNat(x, 16, 16) + BitsToNat(y, 16, 16) + (lo \div 65536)
    IN  [value |-> [i \in 0..31 |->
                      IF i < 16 THEN ((lo % 65536) \div (2^i)) % 2
                      ELSE ((hi % 65536) \div (2^(i - 16))) % 2],
         overflow |-> hi >= 65536]

\* x - y on u32: the wrapped difference and whether it overflowed (x < y)
U32Sub(x, y) ==
    LET sum == U32Add(x, U32Add(U32Not(y), U32FromNat(1)).value)
    IN  [value |-> sum.value,
         overflow |-> ~sum.overflow /\ y # U32Zero]

\* bitwise operators on u8
ByteBits(b) == [j \in 0..7 |-> (b \div (2^j)) % 2]
ByteAnd(a, b) == BitsToNat([j \in 0..7 |-> ByteBits(a)[j] * ByteBits(b)[j]], 0, 8)
ByteOr(a, b) ==
    BitsToNat([j \in 0..7 |-> IF ByteBits(a)[j] + ByteBits(b)[j] > 0 THEN 1 ELSE 0], 0, 8)

-----------------------------------------------------------------------------
(* field_types.rs *)

bit_at(value, position) == U32And(U32Shr(value, position), U32FromNat(1)) # U32Zero

\* value | (1 << position)
set_bit_at(value, position) == U32Or(value, U32Shl(U32FromNat(1), position))

\* value & !(1 << position)
unset_bit_at(value, position) == U32And(value, U32Not(U32Shl(U32FromNat(1), position)))

\* ReportFlags::new
ReportFlags_new == U32Zero

\* the rows given to impl_report_flags!: ($bit, $get, $get_not, $set, $unset)
impl_report_flags ==
    LET row(bit, get, get_not, set, unset) ==
            [bit |-> bit, get |-> get, get_not |-> get_not, set |-> set, unset |-> unset]
    IN  {row(0, "is_constant", "is_data", "as_constant", "as_data"),
         row(1, "is_variable", "is_array", "as_variable", "as_array"),
         row(2, "is_relative", "is_absolute", "as_relative", "as_absolute"),
         row(3, "can_wrap", "cannot_wrap", "with_wrap", "without_wrap"),
         row(4, "is_nonlinear", "is_linear", "as_nonlinear", "as_linear"),
         row(5, "has_no_preferred_state", "has_preferred_state",
                "with_preferred_state", "without_preferred_state"),
         row(6, "has_null_state", "has_no_null_position",
                "with_null_state", "without_null_position"),
         row(7, "is_volatile", "is_nonvolatile", "as_volatile", "as_nonvolatile"),
         row(8, "is_buffered_bytes", "is_bit_field", "as_buffered_bytes", "as_bit_field")}

\* the method `name` of ReportFlags that the macro generates as $get or
\* $get_not of a row, called on self
ReportFlags_get(self, name) ==
    LET r == CHOOSE r \in impl_report_flags : name \in {r.get, r.get_not} IN
    IF name = r.get THEN bit_at(self, r.bit) ELSE ~bit_at(self, r.bit)

\* the method `name` that the macro generates as $set or $unset of a row
ReportFlags_set(self, name) ==
    LET r == CHOOSE r \in impl_report_flags : name \in {r.set, r.unset} IN
    IF name = r.set THEN set_bit_at(self, r.bit) ELSE unset_bit_at(self, r.bit)

CollectionTypes ==
    {"Physical", "Application", "Logical", "Report", "NamedArray",
     "UsageSwitch", "UsageModifier"}

CollectionType_code(collection_type) ==
    CASE collection_type = "Physical" -> 0
      [] collection_type = "Application" -> 1
      [] collection_type = "Logical" -> 2
      [] collection_type = "Report" -> 3
      [] collection_type = "NamedArray" -> 4
      [] collection_type = "UsageSwitch" -> 5
      [] collection_type = "UsageModifier" -> 6

\* impl TryFrom<i8> for UnitExponent
UnitExponent_try_from(value) ==
    IF value >= -4 /\ value < 4 THEN [result |-> "Ok", unit_exponent |-> Some(value)]
    ELSE [result |-> "TryFromIntError", unit_exponent |-> None]

\* as_nibble that converts the i8 to u8 without the mask
as_nibble_unmasked(unit_exponent) == BitsToNat(I32AsU32(unit_exponent), 0, 8)

\* UnitExponent::as_nibble: (self.0 & 0xF) of the i8, converted to u8
as_nibble(unit_exponent) == ByteAnd(BitsToNat(I32AsU32(unit_exponent), 0, 8), 15)

\* Delimiter::is_open
is_open(delimiter) == delimiter

-----------------------------------------------------------------------------
(* tag/tag.rs: Tag and TagType *)

MainKinds == {"Input", "Output", "Feature", "Collection", "EndCollection"}
GlobalKinds ==
    {"UsagePage", "LogicalMinimum", "LogicalMaximum", "PhysicalMinimum",
     "PhysicalMaximum", "UnitExponent", "Unit", "ReportSize", "ReportId",
     "ReportCount", "Push", "Pop"}
LocalKinds ==
    {"ExtendedUsage", "UsageId", "ExtendedUsageMinimum", "UsageMinimumId",
     "ExtendedUsageMaximum", "UsageMaximumId", "DesignatorIndex",
     "DesignatorMinimum", "DesignatorMaximum", "StringIndex", "StringMinimum",
     "StringMaximum", "Delimiter"}

\* the Tag variants by the type of their payload
U32Kinds ==
    {"Input", "Output", "Feature", "Unit", "ReportSize", "ReportCount",
     "ExtendedUsage", "ExtendedUsageMinimum", "ExtendedUsageMaximum",
     "DesignatorIndex", "DesignatorMinimum", "DesignatorMaximum",
     "StringIndex", "StringMinimum", "StringMaximum"}
I32Kinds == {"LogicalMinimum", "LogicalMaximum", "PhysicalMinimum", "PhysicalMaximum"}
U16Kinds == {"UsagePage", "UsageId", "UsageMinimumId", "UsageMaximumId"}
UnitKinds == {"EndCollection", "Push", "Pop"}

\* a Tag variant with its payload (the field is named by the payload's type:
\* ReportFlags, Unit and the other u32 payloads; CollectionType; Delimiter;
\* the i32, u16, u8 and UnitExponent payloads), and a variant without payload
Tag(kind, v) ==
    IF kind \in U32Kinds THEN [kind |-> kind, u32 |-> v]
    ELSE IF kind = "Collection" THEN [kind |-> kind, collection_type |-> v]
    ELSE IF kind = "Delimiter" THEN [kind |-> kind, delimiter |-> v]
    ELSE [kind |-> kind, v |-> v]
UnitTag(kind) == [kind |-> kind]

\* the payload of a Tag
payload(tag) ==
    IF tag.kind \in U32Kinds THEN tag.u32
    ELSE IF tag.kind = "Collection" THEN tag.collection_type
    ELSE IF tag.kind = "Delimiter" THEN tag.delimiter
    ELSE tag.v

tag_type(tag) ==
    CASE tag.kind \in MainKinds -> "Main"
      [] tag.kind \in GlobalKinds -> "Global"
      [] tag.kind \in LocalKinds -> "Local"

-----------------------------------------------------------------------------
(* item.rs: BSize, SizeTypeTag, ShortItemData, ItemPrefix, ShortItem *)

BSize_code(size) ==
    CASE size = "B0" -> 0 [] size = "B1" -> 1 [] size = "B2" -> 2 [] size = "B4" -> 3

BSize_size(size) ==
    CASE size = "B0" -> 0 [] size = "B1" -> 1 [] size = "B2" -> 2 [] size = "B4" -> 4

BSize_try_from_code(code) ==
    CASE code = 0 -> "B0" [] code = 1 -> "B1" [] code = 2 -> "B2" [] code = 3 -> "B4"

\* SizeTypeTag::size, ::b_type (as the type code) and ::b_tag
SizeTypeTag_size(size_type_tag) == BSize_try_from_code(ByteAnd(size_type_tag, 3))
SizeTypeTag_b_type(size_type_tag) == ByteAnd(size_type_tag \div 4, 3)
SizeTypeTag_b_tag(size_type_tag) == ByteAnd(size_type_tag \div 16, 15)

\* a ShortItemData variant
ShortItemData(variant, v) == [variant |-> variant, v |-> v]
Empty == [variant |-> "Empty"]

ShortItemData_size(data) ==
    CASE data.variant = "Empty" -> "B0"
      [] data.variant \in {"U8", "I8"} -> "B1"
      [] data.variant \in {"U16", "I16"} -> "B2"
      [] data.variant \in {"U32", "I32"} -> "B4"

as_u32(data) ==
    CASE data.variant = "Empty" -> U32Zero
      [] data.variant \in {"U8", "U16"} -> U32FromNat(data.v)
      [] data.variant \in {"I8", "I16", "I32"} -> I32AsU32(data.v)
      [] data.variant = "U32" -> data.v

make_shrunk_unsigned(value) ==
    IF FitsU8(value) THEN ShortItemData("U8", BitsToNat(value, 0, 8))
    ELSE IF FitsU16(value) THEN ShortItemData("U16", BitsToNat(value, 0, 16))
    ELSE ShortItemData("U32", value)

\* make_shrunk_signed with the first test against the u8 range's upper end
make_shrunk_signed_u8_bound(value) ==
    IF -128 <= value /\ value <= 255 THEN ShortItemData("I8", value)
    ELSE IF -32768 <= value /\ value <= 32767 THEN ShortItemData("I16", value)
    ELSE ShortItemData("I32", value)

make_shrunk_signed(value) ==
    IF -128 <= value /\ value <= 127 THEN ShortItemData("I8", value)
    ELSE IF -32768 <= value /\ value <= 32767 THEN ShortItemData("I16", value)
    ELSE ShortItemData("I32", value)

shrink(data) ==
    CASE data.variant = "Empty" -> data
      [] data.variant \in {"U8", "U16"} -> make_shrunk_unsigned(U32FromNat(data.v))
      [] data.variant = "U32" -> make_shrunk_unsigned(data.v)
      [] data.variant \in {"I8", "I16", "I32"} -> make_shrunk_signed(data.v)

\* ShortItem(SizeTypeTag, u32)
ShortItem(size_type_tag, data) == [size_type_tag |-> size_type_tag, data |-> data]

ItemPrefix_from_u8(value) == ByteAnd(value, 252)
with_size(prefix, size) == ByteOr(prefix, BSize_code(size))
with_data(prefix, data) == ShortItem(with_size(prefix, ShortItemData_size(data)), as_u32(data))
without_data(prefix) == with_data(prefix, Empty)
with_u8(prefix, data) == with_data(prefix, ShortItemData("U8", data))
\* with_u32 that shrinks its data like with_shrunk_u32
with_u32_shrinking(prefix, data) == with_data(prefix, shrink(ShortItemData("U32", data)))
with_u32(prefix, data) == with_data(prefix, ShortItemData("U32", data))
with_shrunk_u32(prefix, data) == with_data(prefix, shrink(ShortItemData("U32", data)))
with_shrunk_i32(prefix, data) == with_data(prefix, shrink(ShortItemData("I32", data)))

\* mod main_item, mod global_item, mod local_item: the ItemPrefix of each Tag
\* variant (the two usage forms share the prefix of their local item)
ItemPrefixOf(kind) ==
    ItemPrefix_from_u8(
        CASE kind = "Input" -> 128
          [] kind = "Output" -> 144
          [] kind = "Feature" -> 176
          [] kind = "Collection" -> 160
          [] kind = "EndCollection" -> 192
          [] kind = "UsagePage" -> 4
          [] kind = "LogicalMinimum" -> 20
          [] kind = "LogicalMaximum" -> 36
          [] kind = "PhysicalMinimum" -> 52
          [] kind = "PhysicalMaximum" -> 68
          [] kind = "UnitExponent" -> 84
          [] kind = "Unit" -> 100
          [] kind = "ReportSize" -> 116
          [] kind = "ReportId" -> 132
          [] kind = "ReportCount" -> 148
          [] kind = "Push" -> 164
          [] kind = "Pop" -> 180
          [] kind \in {"ExtendedUsage", "UsageId"} -> 8
          [] kind \in {"ExtendedUsageMinimum", "UsageMinimumId"} -> 24
          [] kind \in {"ExtendedUsageMaximum", "UsageMaximumId"} -> 40
          [] kind = "DesignatorIndex" -> 56
          [] kind = "DesignatorMinimum" -> 72
          [] kind = "DesignatorMaximum" -> 88
          [] kind = "StringIndex" -> 120
          [] kind = "StringMinimum" -> 136
          [] kind = "StringMaximum" -> 152
          [] kind = "Delimiter" -> 168)

\* impl From<Tag> for ShortItem
ShortItem_from(tag) ==
    LET prefix == ItemPrefixOf(tag.kind) IN
    CASE tag.kind \in {"Input", "Output", "Feature"} -> with_shrunk_u32(prefix, payload(tag))
      [] tag.kind = "Collection" -> with_u8(prefix, CollectionType_code(payload(tag)))
      [] tag.kind \in {"EndCollection", "Push", "Pop"} -> without_data(prefix)
      [] tag.kind = "UsagePage" -> with_shrunk_u32(prefix, U32FromNat(payload(tag)))
      [] tag.kind \in {"LogicalMinimum", "LogicalMaximum", "PhysicalMinimum",
                       "PhysicalMaximum"} -> with_shrunk_i32(prefix, payload(tag))
      [] tag.kind = "UnitExponent" -> with_u8(prefix, as_nibble(payload(tag)))
      [] tag.kind \in {"Unit", "ReportSize", "ReportCount"} -> with_shrunk_u32(prefix, payload(tag))
      [] tag.kind = "ReportId" -> with_u8(prefix, payload(tag))
      [] tag.kind \in {"ExtendedUsage", "ExtendedUsageMinimum", "ExtendedUsageMaximum"} ->
            with_u32(prefix, payload(tag))
      [] tag.kind \in {"UsageId", "UsageMinimumId", "UsageMaximumId"} ->
            with_shrunk_u32(prefix, U32FromNat(payload(tag)))
      [] tag.kind \in {"DesignatorIndex", "DesignatorMinimum", "DesignatorMaximum",
                       "StringIndex", "StringMinimum", "StringMaximum"} ->
            with_shrunk_u32(prefix, payload(tag))
      [] tag.kind = "Delimiter" ->
            with_shrunk_u32(prefix, U32FromNat(IF is_open(payload(tag)) THEN 1 ELSE 0))

\* ShortItem::into_bytes slicing by the size code instead of the size
ShortItem_into_bytes_by_code(item) ==
    LET data == <<item.size_type_tag>> \o to_le_bytes(item.data)
        size == SizeTypeTag_size(item.size_type_tag)
    IN  SubSeq(data, 1, 1 + BSize_code(size))

\* ShortItem::into_bytes
ShortItem_into_bytes(item) ==
    LET data == <<item.size_type_tag>> \o to_le_bytes(item.data)
        size == SizeTypeTag_size(item.size_type_tag)
    IN  SubSeq(data, 1, 1 + BSize_size(size))

\* impl FromIterator<Tag> for ShortItems
ShortItems_from_iter(iter) == [i \in 1..Len(iter) |-> ShortItem_from(iter[i])]

RECURSIVE ShortItems_into_bytes(_)
\* ShortItems::into_bytes: flat_map(ShortItem::into_bytes)
ShortItems_into_bytes(items) ==
    IF items = <<>> THEN <<>>
    ELSE ShortItem_into_bytes(Head(items)) \o ShortItems_into_bytes(Tail(items))

-----------------------------------------------------------------------------
(* optimizer.rs: GlobalTable and TagOptimizer *)

\* replace_option_bool that fills an empty slot only
replace_option_bool_keep_first(opt, value) ==
    LET item_is_new == IF is_some(opt) THEN unwrap(opt) # value ELSE TRUE
    IN  [opt |-> IF is_some(opt) THEN opt ELSE Some(value), item_is_new |-> item_is_new]

\* replace_option_bool: the new content of the slot and the returned bool
replace_option_bool(opt, value) ==
    LET item_is_new == IF is_some(opt) THEN unwrap(opt) # value ELSE TRUE
    IN  [opt |-> Some(value), item_is_new |-> item_is_new]

\* GlobalTable::new (Default)
GlobalTable_new ==
    [usage_page |-> None, logical_minimum |-> None, logical_maximum |-> None,
     physical_minimum |-> None, physical_maximum |-> None, unit_exponent |-> None,
     unit |-> None, report_size |-> None, report_id |-> None, report_count |-> None]

\* the field of GlobalTable that set_tag matches to a Tag variant
SlotKinds == GlobalKinds \ {"Push", "Pop"}
SlotOf(kind) ==
    CASE kind = "UsagePage" -> "usage_page"
      [] kind = "LogicalMinimum" -> "logical_minimum"
      [] kind = "LogicalMaximum" -> "logical_maximum"
      [] kind = "PhysicalMinimum" -> "physical_minimum"
      [] kind = "PhysicalMaximum" -> "physical_maximum"
      [] kind = "UnitExponent" -> "unit_exponent"
      [] kind = "Unit" -> "unit"
      [] kind = "ReportSize" -> "report_size"
      [] kind = "ReportId" -> "report_id"
      [] kind = "ReportCount" -> "report_count"

\* set_tag that writes the slot of a copy of the table
set_tag_on_copy(global_table, tag) ==
    IF tag.kind \in SlotKinds
    THEN [panic |-> FALSE, table |-> global_table,
          changed |-> replace_option_bool(global_table[SlotOf(tag.kind)], payload(tag)).item_is_new]
    ELSE [panic |-> TRUE]

\* set_tag with an arm for Push and Pop that reports a change
set_tag_accepts_push_pop(global_table, tag) ==
    IF tag.kind \in SlotKinds
    THEN LET slot == SlotOf(tag.kind)
             r == replace_option_bool(global_table[slot], payload(tag))
         IN  [panic |-> FALSE,
              table |-> [global_table EXCEPT ![slot] = r.opt],
              changed |-> r.item_is_new]
    ELSE [panic |-> FALSE, table |-> global_table, changed |-> TRUE]

\* GlobalTable::set_tag: the table afterwards and the returned bool, or the
\* panic of the `_` arm ("Unrecognized tag")
set_tag(global_table, tag) ==
    IF tag.kind \in SlotKinds
    THEN LET slot == SlotOf(tag.kind)
             r == replace_option_bool(global_table[slot], payload(tag))
         IN  [panic |-> FALSE,
              table |-> [global_table EXCEPT ![slot] = r.opt],
              changed |-> r.item_is_new]
    ELSE [panic |-> TRUE]

RECURSIVE mark_duplicates(_, _, _)
\* remove_duplicates, the for loop over self.0 zipped with is_duplicate:
\* is_duplicate holds the flags of the tags already visited
mark_duplicates(tag_seq, global_table, is_duplicate) ==
    IF Len(is_duplicate) = Len(tag_seq)
    THEN [panic |-> FALSE, is_duplicate |-> is_duplicate]
    ELSE LET tag == tag_seq[Len(is_duplicate) + 1] IN
         IF tag_type(tag) = "Global"
         THEN LET r == set_tag(global_table, tag) IN
              IF r.panic THEN [panic |-> TRUE]
              ELSE mark_duplicates(tag_seq, r.table, Append(is_duplicate, ~r.changed))
         ELSE mark_duplicates(tag_seq, global_table, Append(is_duplicate, FALSE))

RECURSIVE delete_marked_inverted(_, _)
\* delete_marked with the filter inverted: keeps the marked tags
delete_marked_inverted(tag_seq, is_duplicate) ==
    IF Len(tag_seq) = 0 \/ Len(is_duplicate) = 0 THEN <<>>
    ELSE (IF Head(is_duplicate) THEN <<Head(tag_seq)>> ELSE <<>>)
         \o delete_marked_inverted(Tail(tag_seq), Tail(is_duplicate))

RECURSIVE delete_marked(_, _)
\* remove_duplicates, the zip/filter/map/collect that deletes the marked tags
delete_marked(tag_seq, is_duplicate) ==
    IF Len(tag_seq) = 0 \/ Len(is_duplicate) = 0 THEN <<>>
    ELSE (IF Head(is_duplicate) THEN <<>> ELSE <<Head(tag_seq)>>)
         \o delete_marked(Tail(tag_seq), Tail(is_duplicate))

\* TagOptimizer::remove_duplicates: the tags kept, or the panic of set_tag
remove_duplicates(self) ==
    LET marked == mark_duplicates(self, GlobalTable_new, <<>>) IN
    IF marked.panic THEN [panic |-> TRUE]
    ELSE [panic |-> FALSE, tags |-> delete_marked(self, marked.is_duplicate)]

-----------------------------------------------------------------------------
(* usage.rs: Usage and UsageRange *)

Standard(page, id) == [variant |-> "Standard", page |-> page, id |-> id]
Extended(id) == [variant |-> "Extended", usage |-> id]

\* Usage::as_u32
Usage_as_u32(usage) ==
    IF usage.variant = "Standard"
    THEN U32Or(U32Shl(U32FromNat(usage.page), 16), U32FromNat(usage.id))
    ELSE usage.usage

UsageRange(min, max) == [min |-> min, max |-> max]
\* UsageRange::single
single(usage) == UsageRange(usage, usage)

\* UsageRange::len: self.max.as_u32() + 1 - self.min.as_u32(), the wrapped
\* value and whether the addition or the subtraction overflowed
UsageRange_len(usage_range) ==
    LET plus_one == U32Add(Usage_as_u32(usage_range.max), U32FromNat(1))
        minus_min == U32Sub(plus_one.value, Usage_as_u32(usage_range.min))
    IN  [value |-> minus_min.value,
         overflow |-> plus_one.overflow \/ minus_min.overflow]

-----------------------------------------------------------------------------
(* tag/tag.rs: TagGroup and its constructors *)

Leaf(tag) == [variant |-> "Tag", tag |-> tag]
\* TagGroup::group
group(it) == [variant |-> "Group", items |-> it]

\* TagGroup::usage, ::usage_minimum, ::usage_maximum
TagGroup_usage(usage) ==
    group(IF usage.variant = "Standard"
          THEN <<Leaf(Tag("UsagePage", usage.page)), Leaf(Tag("UsageId", usage.id))>>
          ELSE <<Leaf(Tag("ExtendedUsage", usage.usage))>>)

usage_minimum(usage) ==
    group(IF usage.variant = "Standard"
          THEN <<Leaf(Tag("UsagePage", usage.page)), Leaf(Tag("UsageMinimumId", usage.id))>>
          ELSE <<Leaf(Tag("ExtendedUsageMinimum", usage.usage))>>)

usage_maximum(usage) ==
    group(IF usage.variant = "Standard"
          THEN <<Leaf(Tag("UsagePage", usage.page)), Leaf(Tag("UsageMaximumId", usage.id))>>
          ELSE <<Leaf(Tag("ExtendedUsageMaximum", usage.usage))>>)

\* TagGroup::usage_range with the maximum pushed before the minimum
usage_range_max_first(range) ==
    group(IF UsageRange_len(range).value = U32FromNat(1)
          THEN <<TagGroup_usage(range.min)>>
          ELSE <<usage_maximum(range.max), usage_minimum(range.min)>>)

\* TagGroup::usage_range (with the wrapped value of len())
usage_range(range) ==
    group(IF UsageRange_len(range).value = U32FromNat(1)
          THEN <<TagGroup_usage(range.min)>>
          ELSE <<usage_minimum(range.min), usage_maximum(range.max)>>)

\* TagGroup::usage_set
usage_set(set) == group([i \in 1..Len(set) |-> usage_range(set[i])])

\* TagGroup::report_main
report_main(main) ==
    CASE main.report_type = "Feature" -> Leaf(Tag("Feature", main.report_flags))
      [] main.report_type = "Input" -> Leaf(Tag("Input", main.report_flags))
      [] main.report_type = "Output" -> Leaf(Tag("Output", main.report_flags))

\* the push of an `if let Some(..)`: one tag group if the field is set
IfSome(opt, kind) == IF is_some(opt) THEN <<Leaf(Tag(kind, unwrap(opt)))>> ELSE <<>>

\* TagGroup::report with the main item pushed before the optional fields
TagGroup_report_main_first(report) ==
    group(<<usage_set(report.usage_set),
            Leaf(Tag("LogicalMinimum", report.logical_minimum)),
            Leaf(Tag("LogicalMaximum", report.logical_maximum)),
            Leaf(Tag("ReportSize", report.report_size)),
            Leaf(Tag("ReportCount", report.report_count)),
            report_main(report.main)>>
          \o IfSome(report.physical_minimum, "PhysicalMinimum")
          \o IfSome(report.physical_maximum, "PhysicalMaximum")
          \o IfSome(report.unit_exponent, "UnitExponent")
          \o IfSome(report.unit, "Unit")
          \o IfSome(report.report_id, "ReportId"))

\* TagGroup::report
TagGroup_report(report) ==
    group(<<usage_set(report.usage_set),
            Leaf(Tag("LogicalMinimum", report.logical_minimum)),
            Leaf(Tag("LogicalMaximum", report.logical_maximum)),
            Leaf(Tag("ReportSize", report.report_size)),
            Leaf(Tag("ReportCount", report.report_count))>>
          \o IfSome(report.physical_minimum, "PhysicalMinimum")
          \o IfSome(report.physical_maximum, "PhysicalMaximum")
          \o IfSome(report.unit_exponent, "UnitExponent")
          \o IfSome(report.unit, "Unit")
          \o IfSome(report.report_id, "ReportId")
          \o <<report_main(report.main)>>)

RECURSIVE TagGroup_collection_string_first(_)
\* TagGroup::collection with string_index pushed before designator_index
TagGroup_collection_string_first(c) ==
    LET collection_item(item) ==
            IF item.variant = "Report" THEN TagGroup_report(item.report)
            ELSE TagGroup_collection_string_first(item.collection)
        collection_items(items) == group([i \in 1..Len(items) |-> collection_item(items[i])])
    IN  group(<<TagGroup_usage(c.usage)>>
              \o IfSome(c.string_index, "StringIndex")
              \o IfSome(c.designator_index, "DesignatorIndex")
              \o IfSome(c.delimiter, "Delimiter")
              \o <<Leaf(Tag("Collection", c.collection_type)),
                   collection_items(c.items),
                   Leaf(UnitTag("EndCollection"))>>)

RECURSIVE TagGroup_collection_end_first(_)
\* TagGroup::collection with the end of the collection pushed before its items
TagGroup_collection_end_first(c) ==
    LET collection_item(item) ==
            IF item.variant = "Report" THEN TagGroup_report(item.report)
            ELSE TagGroup_collection_end_first(item.collection)
        collection_items(items) == group([i \in 1..Len(items) |-> collection_item(items[i])])
    IN  group(<<TagGroup_usage(c.usage)>>
              \o IfSome(c.designator_index, "DesignatorIndex")
              \o IfSome(c.string_index, "StringIndex")
              \o IfSome(c.delimiter, "Delimiter")
              \o <<Leaf(Tag("Collection", c.collection_type)),
                   Leaf(UnitTag("EndCollection")),
                   collection_items(c.items)>>)

RECURSIVE TagGroup_collection(_)
\* TagGroup::collection, with ::collection_items and ::collection_item
TagGroup_collection(c) ==
    LET collection_item(item) ==
            IF item.variant = "Report" THEN TagGroup_report(item.report)
            ELSE TagGroup_collection(item.collection)
        collection_items(items) == group([i \in 1..Len(items) |-> collection_item(items[i])])
    IN  group(<<TagGroup_usage(c.usage)>>
              \o IfSome(c.designator_index, "DesignatorIndex")
              \o IfSome(c.string_index, "StringIndex")
              \o IfSome(c.delimiter, "Delimiter")
              \o <<Leaf(Tag("Collection", c.collection_type)),
                   collection_items(c.items),
                   Leaf(UnitTag("EndCollection"))>>)

RECURSIVE LenOverflows(_)
\* whether TagGroup::collection evaluates a UsageRange::len that overflows
LenOverflows(c) ==
    \E i \in 1..Len(c.items) :
        IF c.items[i].variant = "Report"
        THEN \E j \in 1..Len(c.items[i].report.usage_set) :
                UsageRange_len(c.items[i].report.usage_set[j]).overflow
        ELSE LenOverflows(c.items[i].collection)

-----------------------------------------------------------------------------
(* tag/iter.rs: TagGroupIterator *)

\* TagGroup::tags
TagGroup_tags(tag_group) ==
    IF tag_group.variant = "Tag"
    THEN [variant |-> "Tag", tag_opt |-> Some(tag_group.tag)]
    ELSE [variant |-> "Group", items |-> tag_group.items, subiterator |-> None]

RECURSIVE TagGroupIterator_next(_)
\* TagGroupIterator::next without the loop: the iterator of the next item is
\* asked once
TagGroupIterator_next_no_loop(self) ==
    IF self.variant = "Tag"
    THEN [item |-> self.tag_opt, iter |-> [self EXCEPT !.tag_opt = None]]
    ELSE LET sub == IF is_some(self.subiterator)
                    THEN TagGroupIterator_next(unwrap(self.subiterator))
                    ELSE [item |-> None, iter |-> None]
             subiterator == IF is_some(self.subiterator) THEN Some(sub.iter) ELSE None
         IN  IF is_some(sub.item)
             THEN [item |-> sub.item, iter |-> [self EXCEPT !.subiterator = subiterator]]
             ELSE IF Len(self.items) > 0
             THEN LET r == TagGroupIterator_next(TagGroup_tags(Head(self.items))) IN
                  [item |-> r.item,
                   iter |-> [variant |-> "Group", items |-> Tail(self.items),
                             subiterator |-> Some(r.iter)]]
             ELSE [item |-> None, iter |-> [self EXCEPT !.subiterator = subiterator]]

\* TagGroupIterator::next: the returned Option<&Tag> and the iterator afterwards
TagGroupIterator_next(self) ==
    IF self.variant = "Tag"
    THEN [item |-> self.tag_opt, iter |-> [self EXCEPT !.tag_opt = None]]
    ELSE LET sub == IF is_some(self.subiterator)
                    THEN TagGroupIterator_next(unwrap(self.subiterator))
                    ELSE [item |-> None, iter |-> None]
             subiterator == IF is_some(self.subiterator) THEN Some(sub.iter) ELSE None
         IN  IF is_some(sub.item)
             THEN [item |-> sub.item, iter |-> [self EXCEPT !.subiterator = subiterator]]
             ELSE IF Len(self.items) > 0
             THEN TagGroupIterator_next(
                      [variant |-> "Group", items |-> Tail(self.items),
                       subiterator |-> Some(TagGroup_tags(Head(self.items)))])
             ELSE [item |-> None, iter |-> [self EXCEPT !.subiterator = subiterator]]

RECURSIVE collect(_)
\* Iterator::collect over a TagGroupIterator: next() until the first None
collect(iter) ==
    LET r == TagGroupIterator_next(iter) IN
    IF is_none(r.item) THEN <<>> ELSE <<unwrap(r.item)>> \o collect(r.iter)

-----------------------------------------------------------------------------
(* report.rs and collection.rs: Report, Collection, CollectionItem *)

ReportMain_new(report_type, report_flags) ==
    [report_type |-> report_type, report_flags |-> report_flags]

\* Report::new: a report with no optional values
Report_new(main, set, logical_minimum, logical_maximum, report_size, report_count) ==
    [main |-> main, usage_set |-> set,
     logical_minimum |-> logical_minimum, logical_maximum |-> logical_maximum,
     report_size |-> report_size, report_count |-> report_count,
     physical_minimum |-> None, physical_maximum |-> None, unit_exponent |-> None,
     unit |-> None, report_id |-> None,
     designator_index |-> None, designator_minimum |-> None,
     designator_maximum |-> None, string_index |-> None, string_minimum |-> None,
     string_maximum |-> None, delimiter |-> None]

\* Collection::new and the public optional fields
Collection_new(t, usage, items) ==
    [collection_type |-> t, usage |-> usage, items |-> items,
     designator_index |-> None, string_index |-> None, delimiter |-> None]

\* Collection::empty
Collection_empty(t, usage) == Collection_new(t, usage, <<>>)

ReportItemOf(report) == [variant |-> "Report", report |-> report]
CollectionItemOf(c) == [variant |-> "Collection", collection |-> c]

-----------------------------------------------------------------------------
(* The values the model draws its inputs from *)

\* bounds of the model
MaxItems == 3      \* items of a Collection in the two-level family
MaxDepth == 2      \* nesting depth of the chain family
MaxTags == 4       \* length of the tag sequences given to the optimizer
MaxExhausted == 2  \* calls of next() on an exhausted iterator

SeqsUpTo(S, n) == UNION {[1..k -> S] : k \in 0..n}

\* the u32 with bits lo .. hi-1 set: 2^hi - 2^lo
Run(lo, hi) == [i \in 0..31 |-> IF lo <= i /\ i < hi THEN 1 ELSE 0]

\* u32 samples: 2^k - 1, 2^k and 2^32 - 2^k, for every k
U32Samples ==
    {Run(0, k) : k \in 0..32} \cup {Run(k, k + 1) : k \in 0..31}
    \cup {Run(k, 32) : k \in 0..31}

\* i32 samples: 2^k - 1, 2^k, -2^k and -2^k - 1, for every k, and the extremes
I32Samples ==
    UNION {{2^k - 1, 2^k, -(2^k), -(2^k) - 1} : k \in 0..30}
    \cup {2147483647, -2147483647 - 1}

U16Samples == {0, 1, 255, 256, 65535}
U8Samples == {0, 1, 255}
\* UnitExponent::try_from accepts -4 ..= 3
UnitExponents == -4..3

\* the payloads of a Tag variant
PayloadsOf(kind) ==
    CASE kind \in U32Kinds -> U32Samples
      [] kind \in I32Kinds -> I32Samples
      [] kind \in U16Kinds -> U16Samples
      [] kind = "ReportId" -> U8Samples
      [] kind = "UnitExponent" -> UnitExponents
      [] kind = "Collection" -> CollectionTypes
      [] kind = "Delimiter" -> BOOLEAN

AllKinds == MainKinds \cup GlobalKinds \cup LocalKinds

TagSamples ==
    {UnitTag(kind) : kind \in UnitKinds}
    \cup UNION {{Tag(kind, v) : v \in PayloadsOf(kind)} : kind \in AllKinds \ UnitKinds}

\* two payloads of each Global variant that has a slot
TwoPayloadsOf(kind) ==
    CASE kind \in {"Unit", "ReportSize", "ReportCount"} -> {U32FromNat(1), U32FromNat(8)}
      [] kind = "UnitExponent" -> {-1, 1}
      [] OTHER -> {1, 2}

\* the tags of the optimizer's input: two values of one Global variant, one
\* value of two other Global variants, a Main tag, a Local tag, Push and Pop
OptimizerTags(kind) ==
    {Tag(kind, v) : v \in TwoPayloadsOf(kind)}
    \cup {Tag("LogicalMaximum", 1), Tag("ReportCount", U32FromNat(8)),
          Tag("Input", U32FromNat(2)), Tag("UsageId", 1),
          UnitTag("Push"), UnitTag("Pop")}

\* usages and usage sets
Button(id) == Standard(9, id)
SampleUsages ==
    {Standard(1, 2), Standard(65535, 65535), Extended(U32FromNat(5)), Extended(U32Max)}

SampleUsageSets ==
    {<<>>,
     <<single(Button(1))>>,
     <<UsageRange(Button(1), Button(3))>>,
     <<single(Extended(U32FromNat(5))), UsageRange(Extended(U32FromNat(5)), Extended(U32Max))>>,
     <<UsageRange(Extended(U32Zero), Extended(U32Max))>>,
     <<single(Standard(1, 48)), single(Extended(U32Max))>>,
     <<UsageRange(Standard(1, 2), Extended(U32FromNat(65600))), single(Button(1))>>}

SmallUsageSets ==
    {<<>>, <<UsageRange(Button(1), Button(3))>>,
     <<single(Extended(U32FromNat(5))), single(Standard(1, 48))>>}

\* a report with the optional global fields named in `set` and, if `locals`,
\* every optional local field
SampleReport(report_type, flags, set, options, locals) ==
    LET r == Report_new(ReportMain_new(report_type, flags), set,
                        -127, 127, U32FromNat(8), U32FromNat(2))
        Opt(name, v) == IF name \in options THEN Some(v) ELSE None
        Loc(v) == IF locals THEN Some(v) ELSE None
    IN  [r EXCEPT !.physical_minimum = Opt("physical_minimum", -32768),
                  !.physical_maximum = Opt("physical_maximum", 32768),
                  !.unit_exponent = Opt("unit_exponent", -4),
                  !.unit = Opt("unit", U32FromNat(4113)),
                  !.report_id = Opt("report_id", 1),
                  !.designator_index = Loc(U32FromNat(1)),
                  !.designator_minimum = Loc(U32FromNat(1)),
                  !.designator_maximum = Loc(U32FromNat(2)),
                  !.string_index = Loc(U32FromNat(3)),
                  !.string_minimum = Loc(U32FromNat(3)),
                  !.string_maximum = Loc(U32FromNat(4)),
                  !.delimiter = Loc(TRUE)]

OptionalGlobals ==
    {"physical_minimum", "physical_maximum", "unit_exponent", "unit", "report_id"}

SampleFlags == {U32Zero, U32FromNat(2), U32FromNat(257)}

SampleReports ==
    {SampleReport(t, U32FromNat(2), s, o, FALSE) :
        t \in {"Input", "Output", "Feature"}, s \in SmallUsageSets,
        o \in SUBSET OptionalGlobals}
    \cup {SampleReport("Input", f, s, o, l) :
        f \in SampleFlags, s \in SampleUsageSets, o \in {{}, OptionalGlobals},
        l \in BOOLEAN}

\* the mouse of the end-to-end scenario: three buttons and two axes
Buttons ==
    Report_new(ReportMain_new("Input", U32FromNat(2)),
               <<UsageRange(Button(1), Button(3))>>, 0, 1, U32FromNat(1), U32FromNat(3))
Axes ==
    Report_new(ReportMain_new("Input", U32FromNat(6)),
               <<single(Standard(1, 48)), single(Standard(1, 49))>>,
               -127, 127, U32FromNat(8), U32FromNat(2))

Mouse == Standard(1, 2)
Pointer == Standard(1, 1)

\* collections that differ in their own fields
HeaderCollections ==
    {[collection_type |-> t, usage |-> u, items |-> <<>>,
      designator_index |-> d, string_index |-> s, delimiter |-> l] :
        t \in CollectionTypes, u \in SampleUsages,
        d \in {None, Some(U32FromNat(5))}, s \in {None, Some(U32FromNat(300))},
        l \in {None, Some(TRUE), Some(FALSE)}}

\* collections of one report
ReportCollections ==
    {Collection_new("Application", Mouse, <<ReportItemOf(r)>>) : r \in SampleReports}

\* collections of up to MaxItems items, each a report or a collection of reports
InnerCollections ==
    {Collection_new("Physical", Pointer, items) :
        items \in {<<>>, <<ReportItemOf(Buttons)>>, <<ReportItemOf(Axes), ReportItemOf(Buttons)>>}}
TwoLevelCollections ==
    {Collection_new("Application", Mouse, items) :
        items \in SeqsUpTo({ReportItemOf(Buttons), ReportItemOf(Axes)}
                           \cup {CollectionItemOf(c) : c \in InnerCollections}, MaxItems)}

RECURSIVE ChainCollections(_)
\* collections nested to the given depth, with reports and empty collections
\* before and after the nested one
ChainCollections(depth) ==
    IF depth = 0 THEN {Collection_empty("Logical", Extended(U32FromNat(5)))}
    ELSE LET E == CollectionItemOf(Collection_empty("Logical", Pointer))
             R == ReportItemOf(Axes)
         IN  {Collection_new("Report", Pointer, items) :
                 items \in UNION {{<<CollectionItemOf(c)>>, <<R, CollectionItemOf(c)>>,
                                   <<CollectionItemOf(c), R>>, <<E, CollectionItemOf(c), E>>} :
                                  c \in ChainCollections(depth - 1)}}

\* collections with every optional field and a report and a nested collection
FullCollections ==
    {[collection_type |-> "Application", usage |-> u,
      items |-> <<ReportItemOf(Buttons),
                  CollectionItemOf([Collection_new("Physical", Pointer, <<ReportItemOf(Axes)>>)
                                       EXCEPT !.string_index = Some(U32FromNat(7))])>>,
      designator_index |-> Some(U32FromNat(5)), string_index |-> Some(U32FromNat(300)),
      delimiter |-> Some(l)] : u \in SampleUsages, l \in BOOLEAN}

Collections ==
    HeaderCollections \cup ReportCollections \cup TwoLevelCollections \cup FullCollections
    \cup UNION {ChainCollections(d) : d \in 0..MaxDepth}

-----------------------------------------------------------------------------
(* into_bytes.rs: Collection::into_bytes, one action per statement *)

NoVariable == rv = None /\ rv_args = None /\ rv_result = "none"
NoFormat ==
    format = None /\ format_log = None /\ format_result = "none" /\ format_bytes = None
NoIter == report_iter = None /\ tag_iter = None /\ yielded = None /\ ids = None
NoField == field_value = None /\ field_args = None

\* let tag_groups = TagGroup::collection(self);
TagGroupCollection ==
    /\ pc = "start"
    /\ IF overflow_checks /\ LenOverflows(collection)
       THEN pc' = "panic" /\ UNCHANGED tag_groups
       ELSE pc' = "tag_groups" /\ tag_groups' = TagGroup_collection(collection)
    /\ UNCHANGED <<overflow_checks, collection, tags, tags_cleaned, tag_items, bytes>>
    /\ UNCHANGED <<variable_vars, format_vars, iter_vars, field_vars>>

\* let tags: Vec<Tag> = tag_groups.tags().cloned().collect();
Flatten ==
    /\ pc = "tag_groups"
    /\ pc' = "tags"
    /\ tags' = collect(TagGroup_tags(tag_groups))
    /\ UNCHANGED <<overflow_checks, collection, tag_groups, tags_cleaned, tag_items, bytes>>
    /\ UNCHANGED <<variable_vars, format_vars, iter_vars, field_vars>>

\* let tags_cleaned = TagOptimizer::from_iter(tags).remove_duplicates();
RemoveDuplicates ==
    /\ pc = "tags"
    /\ LET r == remove_duplicates(tags) IN
       IF r.panic
       THEN pc' = "panic" /\ UNCHANGED tags_cleaned
       ELSE pc' = "tags_cleaned" /\ tags_cleaned' = r.tags
    /\ UNCHANGED <<overflow_checks, collection, tag_groups, tags, tag_items, bytes>>
    /\ UNCHANGED <<variable_vars, format_vars, iter_vars, field_vars>>

\* let tag_items = ShortItems::from_iter(tags_cleaned);
ShortItemsFromIter ==
    /\ pc = "tags_cleaned"
    /\ pc' = "tag_items"
    /\ tag_items' = ShortItems_from_iter(tags_cleaned)
    /\ UNCHANGED <<overflow_checks, collection, tag_groups, tags, tags_cleaned, bytes>>
    /\ UNCHANGED <<variable_vars, format_vars, iter_vars, field_vars>>

\* tag_items.into_bytes()
IntoBytes ==
    /\ pc = "tag_items"
    /\ pc' = "bytes"
    /\ bytes' = ShortItems_into_bytes(tag_items)
    /\ UNCHANGED <<overflow_checks, collection, tag_groups, tags, tags_cleaned, tag_items>>
    /\ UNCHANGED <<variable_vars, format_vars, iter_vars, field_vars>>

\* Collection::into_bytes on every sample collection, in both builds
Init ==
    /\ pc = "start"
    /\ overflow_checks \in BOOLEAN
    /\ collection \in Collections
    /\ tag_groups = None /\ tags = None /\ tags_cleaned = None
    /\ tag_items = None /\ bytes = None
    /\ NoVariable /\ NoFormat /\ NoIter /\ NoField

Next == TagGroupCollection \/ Flatten \/ RemoveDuplicates \/ ShortItemsFromIter \/ IntoBytes

Spec == Init /\ [][Next]_vars

\* TagOptimizer::remove_duplicates on every tag sequence of up to MaxTags tags
InitOptimizer ==
    /\ pc = "tags"
    /\ overflow_checks = FALSE
    /\ collection = None /\ tag_groups = None
    /\ \E kind \in SlotKinds : tags \in SeqsUpTo(OptimizerTags(kind), MaxTags)
    /\ tags_cleaned = None /\ tag_items = None /\ bytes = None
    /\ NoVariable /\ NoFormat /\ NoIter /\ NoField

NextOptimizer == RemoveDuplicates

SpecOptimizer == InitOptimizer /\ [][NextOptimizer]_vars

\* let e = UnitExponent::try_from(value); on Ok, Tag::UnitExponent(e) is the
\* one tag given to ShortItems::from_iter
UnitExponentTryFrom ==
    /\ pc = "i8"
    /\ LET r == UnitExponent_try_from(field_args.value) IN
       /\ field_value' = r.unit_exponent
       /\ IF r.result = "Ok"
          THEN /\ pc' = "tags_cleaned"
               /\ tags_cleaned' = <<Tag("UnitExponent", unwrap(r.unit_exponent))>>
          ELSE pc' = "TryFromIntError" /\ UNCHANGED tags_cleaned
    /\ UNCHANGED <<overflow_checks, collection, tag_groups, tags, tag_items, bytes, field_args>>
    /\ UNCHANGED <<variable_vars, format_vars, iter_vars>>

\* every i8, converted to a UnitExponent and encoded
InitUnitExponent ==
    /\ pc = "i8"
    /\ overflow_checks = FALSE
    /\ collection = None /\ tag_groups = None /\ tags = None
    /\ tags_cleaned = None /\ tag_items = None /\ bytes = None
    /\ NoVariable /\ NoFormat /\ NoIter
    /\ field_value = None
    /\ field_args \in {[call |-> "try_from", value |-> v] : v \in -128..127}

NextUnitExponent == UnitExponentTryFrom \/ ShortItemsFromIter \/ IntoBytes

SpecUnitExponent == InitUnitExponent /\ [][NextUnitExponent]_vars

\* the u32 values ReportFlags are made from: none and all of the nine flags,
\* every other one, and all 32 bits
FlagSamples ==
    {ReportFlags_new, Run(0, 9), U32FromNat(341), U32FromNat(170), U32Max}

\* let flags = flags.$set()
CallSet ==
    /\ pc = "flags"
    /\ \E r \in impl_report_flags :
          /\ field_value' = Some(ReportFlags_set(unwrap(field_value), r.set))
          /\ field_args' = [call |-> r.set, self |-> unwrap(field_value)]
    /\ UNCHANGED <<pc, overflow_checks>>
    /\ UNCHANGED <<pipeline_vars, variable_vars, format_vars, iter_vars>>

\* let flags = flags.$unset()
CallUnset ==
    /\ pc = "flags"
    /\ \E r \in impl_report_flags :
          /\ field_value' = Some(ReportFlags_set(unwrap(field_value), r.unset))
          /\ field_args' = [call |-> r.unset, self |-> unwrap(field_value)]
    /\ UNCHANGED <<pc, overflow_checks>>
    /\ UNCHANGED <<pipeline_vars, variable_vars, format_vars, iter_vars>>

\* ReportFlags::from(value) and the mutators called on it
InitFlags ==
    /\ pc = "flags"
    /\ overflow_checks = FALSE
    /\ collection = None /\ tag_groups = None /\ tags = None
    /\ tags_cleaned = None /\ tag_items = None /\ bytes = None
    /\ NoVariable /\ NoFormat /\ NoIter
    /\ field_value \in {Some(flags) : flags \in FlagSamples}
    /\ field_args = [call |-> "from", self |-> unwrap(field_value)]

NextFlags == CallSet \/ CallUnset

SpecFlags == InitFlags /\ [][NextFlags]_vars

\* TagGroup trees of leaves and groups nested up to three levels, with empty
\* groups first, last, in a row and inside each other
TagGroupTrees ==
    LET a == Leaf(Tag("UsageId", 1))
        b == Leaf(Tag("ReportCount", U32FromNat(8)))
        e == group(<<>>)
        items == {a, b, e, group(<<a, b>>), group(<<e, e>>),
                  group(<<group(<<e, b>>), a>>), group(<<group(<<group(<<a>>), e>>)>>)}
    IN  {a} \cup {group(s) : s \in SeqsUpTo(items, 3)}

\* let mut iter = tag_groups.tags();
Tags ==
    /\ pc = "tag_group"
    /\ pc' = "tag_iter"
    /\ tag_iter' = TagGroup_tags(tag_groups)
    /\ yielded' = <<>>
    /\ UNCHANGED <<overflow_checks, report_iter, ids>>
    /\ UNCHANGED <<collection, tag_groups, tags, tags_cleaned, tag_items, bytes>>
    /\ UNCHANGED <<variable_vars, format_vars, field_vars>>

\* iter.next()
TagNext ==
    /\ pc = "tag_iter"
    /\ Cardinality({k \in 1..Len(yielded) : yielded[k] = None}) < MaxExhausted
    /\ LET r == TagGroupIterator_next(tag_iter) IN
       /\ tag_iter' = r.iter
       /\ yielded' = Append(yielded, r.item)
    /\ UNCHANGED <<pc, overflow_checks, report_iter, ids>>
    /\ UNCHANGED <<pipeline_vars, variable_vars, format_vars, field_vars>>

\* a TagGroup and the calls of next() on its iterator
InitTags ==
    /\ pc = "tag_group"
    /\ overflow_checks = FALSE
    /\ tag_groups \in TagGroupTrees
    /\ collection = None /\ tags = None /\ tags_cleaned = None
    /\ tag_items = None /\ bytes = None
    /\ NoVariable /\ NoFormat /\ NoIter /\ NoField

NextTags == Tags \/ TagNext

SpecTags == InitTags /\ [][NextTags]_vars

\* ShortItem::from and ShortItems::into_bytes on every sample tag
InitItem ==
    /\ pc = "tags_cleaned"
    /\ overflow_checks = FALSE
    /\ collection = None /\ tag_groups = None /\ tags = None
    /\ \E tag \in TagSamples : tags_cleaned = <<tag>>
    /\ tag_items = None /\ bytes = None
    /\ NoVariable /\ NoFormat /\ NoIter /\ NoField

NextItem == ShortItemsFromIter \/ IntoBytes

SpecItem == InitItem /\ [][NextItem]_vars

-----------------------------------------------------------------------------
(* format.rs: ReportVariable *)

\* struct ReportVariable { bit_offset, bit_size, data }
ReportVariable(bit_offset, bit_size, data) ==
    [bit_offset |-> bit_offset, bit_size |-> bit_size, data |-> data]

\* bit_offset % 8
internal_offset(bit_offset) == BitsToNat(bit_offset, 0, 3)

\* x <= 32 on u32
U32AtMost32(x) == (\A i \in 6..31 : x[i] = 0) /\ BitsToNat(x, 0, 6) <= 32

\* whether `x << k` or `x >> k` overflows: the shift amount is 32 or more
ShiftOverflows(k) == \E i \in 5..31 : k[i] = 1

\* the shift amount a build without overflow checks uses: k & 31
ShiftAmount(k) == BitsToNat(k, 0, 5)

\* ReportVariable::new: the result and, if Ok, the value
ReportVariable_new(bit_offset, bit_size, checks) ==
    LET sum == U32Add(bit_size, U32FromNat(internal_offset(bit_offset))) IN
    IF checks /\ sum.overflow THEN [result |-> "panic", rv |-> None]
    ELSE IF U32AtMost32(sum.value)
    THEN [result |-> "Ok", rv |-> Some(ReportVariable(bit_offset, bit_size, U32Zero))]
    ELSE [result |-> "TooLargeError", rv |-> None]

\* ReportVariable::clear
ReportVariable_clear(self) == [self EXCEPT !.data = U32Zero]

\* set_unsigned storing the data before the check of its size
set_unsigned_stores_first(self, data, checks) ==
    LET stored == [self EXCEPT !.data = U32Shl(data, internal_offset(self.bit_offset))] IN
    IF checks /\ ShiftOverflows(self.bit_size) THEN [result |-> "panic", rv |-> self]
    ELSE IF U32And(data, U32Shl(U32Max, ShiftAmount(self.bit_size))) = U32Zero
    THEN [result |-> "Ok", rv |-> stored]
    ELSE [result |-> "DataOutOfBoundsError", rv |-> stored]

\* ReportVariable::set_unsigned: the result and self afterwards
set_unsigned(self, data, checks) ==
    IF checks /\ ShiftOverflows(self.bit_size) THEN [result |-> "panic", rv |-> self]
    ELSE IF U32And(data, U32Shl(U32Max, ShiftAmount(self.bit_size))) = U32Zero
    THEN [result |-> "Ok",
          rv |-> [self EXCEPT !.data = U32Shl(data, internal_offset(self.bit_offset))]]
    ELSE [result |-> "DataOutOfBoundsError", rv |-> self]

\* set_signed without the truncation of a negative value
set_signed_untruncated(self, data, checks) ==
    IF checks /\ ShiftOverflows(self.bit_size) THEN [result |-> "panic", rv |-> self]
    ELSE LET outside_mask == U32Shl(U32Max, ShiftAmount(self.bit_size))
             bits == I32AsU32(data)
         IN  IF data > 0 /\ U32And(bits, outside_mask) # U32Zero
             THEN [result |-> "DataOutOfBoundsError", rv |-> self]
             ELSE IF data < 0 /\ U32And(U32Shl(bits, 1), outside_mask) # outside_mask
             THEN [result |-> "DataOutOfBoundsError", rv |-> self]
             ELSE [result |-> "Ok",
                   rv |-> [self EXCEPT !.data = U32Shl(bits, internal_offset(self.bit_offset))]]

\* ReportVariable::set_signed: the result and self afterwards
set_signed(self, data, checks) ==
    IF checks /\ ShiftOverflows(self.bit_size) THEN [result |-> "panic", rv |-> self]
    ELSE LET outside_mask == U32Shl(U32Max, ShiftAmount(self.bit_size))
             bits == I32AsU32(data)
             truncated_data == U32And(bits, U32Not(outside_mask))
         IN  IF data > 0 /\ U32And(bits, outside_mask) # U32Zero
             THEN [result |-> "DataOutOfBoundsError", rv |-> self]
             ELSE IF data < 0 /\ U32And(U32Shl(bits, 1), outside_mask) # outside_mask
             THEN [result |-> "DataOutOfBoundsError", rv |-> self]
             ELSE [result |-> "Ok",
                   rv |-> [self EXCEPT
                             !.data = U32Shl(truncated_data, internal_offset(self.bit_offset))]]

\* a u32 below 2^31 as a number (`as u64`, `as usize` of such a value)
U32ToNat(x) == BitsToNat(x, 0, 31)

\* take_bit_slice: the bytes of `data` that hold bits of the range, or a panic
\* of the slice index when the range starts after the end of `data`
take_bit_slice(data, bit_offset, bit_size) ==
    LET first_byte == bit_offset \div 8
        slice_end_bit_byte == (bit_offset + bit_size) \div 8
        end_alignment == ((bit_offset % 8) + (bit_size % 8)) % 8
        slice_end_byte == IF end_alignment = 0 THEN slice_end_bit_byte
                          ELSE slice_end_bit_byte + 1
        safe_slice_end_byte == IF slice_end_byte < Len(data) THEN slice_end_byte
                               ELSE Len(data)
    IN  IF first_byte > safe_slice_end_byte THEN [panic |-> TRUE]
        ELSE [panic |-> FALSE, slice |-> SubSeq(data, first_byte + 1, safe_slice_end_byte)]

\* Vec::resize(new_len, 0)
resize(v, new_len) ==
    IF new_len <= Len(v) THEN SubSeq(v, 1, new_len)
    ELSE v \o [i \in 1..(new_len - Len(v)) |-> 0]

\* copy_bit_slice: the bytes of the range with the bits outside it zeroed,
\* resized to the byte in which the range ends
copy_bit_slice(data, bit_offset, bit_size, checks) ==
    LET taken == take_bit_slice(data, bit_offset, bit_size) IN
    IF taken.panic THEN [panic |-> TRUE]
    ELSE IF Len(taken.slice) > 0 /\ checks /\ bit_offset >= 8
    THEN [panic |-> TRUE]   \* u8::MAX << bit_offset overflows
    ELSE LET copy == taken.slice
             end_alignment == ((bit_offset % 8) + (bit_size % 8)) % 8
             end_extra_space == IF end_alignment = 0 THEN 0 ELSE 8 - end_alignment
             last == Len(copy)
             first_cleaned ==
                 IF Len(copy) > 0
                 THEN [copy EXCEPT ![1] = ByteAnd(@, (255 * 2^(bit_offset % 8)) % 256)]
                 ELSE copy
             cleaned ==
                 IF Len(copy) > 0
                 THEN [first_cleaned EXCEPT ![last] = ByteAnd(@, 255 \div 2^end_extra_space)]
                 ELSE copy
             bit_end == bit_offset + bit_size
             desired_size == IF bit_end % 8 = 0 THEN bit_end \div 8 ELSE bit_end \div 8 + 1
         IN  [panic |-> FALSE, bytes |-> resize(cleaned, desired_size)]

\* u64::from_le_bytes of the bytes followed by zeros: a function 0..63 -> {0,1}
U64FromLeBytes(b) ==
    [i \in 0..63 |-> IF i \div 8 < Len(b) THEN (b[1 + i \div 8] \div 2^(i % 8)) % 2 ELSE 0]
U64Shl(x, k) == [i \in 0..63 |-> IF i >= k THEN x[i - k] ELSE 0]
U64Shr(x, k) == [i \in 0..63 |-> IF i + k <= 63 THEN x[i + k] ELSE 0]

\* ReportVariable::copy_data_from_slice: whether it panics and self afterwards
copy_data_from_slice(self, data, bit_offset, checks) ==
    LET copied == copy_bit_slice(data, bit_offset, U32ToNat(self.bit_size), checks) IN
    IF copied.panic THEN [panic |-> TRUE, rv |-> self]
    ELSE IF Len(copied.bytes) > 8 THEN [panic |-> TRUE, rv |-> self]  \* data_bytes[..slice.len()]
    ELSE LET unshifted_data == U64FromLeBytes(copied.bytes)
             target_internal_shift == internal_offset(self.bit_offset)
             given_internal_shift == bit_offset % 8
             shifted_data ==
                 IF given_internal_shift < target_internal_shift
                 THEN U64Shl(unshifted_data, target_internal_shift - given_internal_shift)
                 ELSE U64Shr(unshifted_data, given_internal_shift - target_internal_shift)
         IN  IF \E i \in 32..63 : shifted_data[i] = 1
             THEN [panic |-> TRUE, rv |-> self]    \* try_into().unwrap()
             ELSE [panic |-> FALSE,
                   rv |-> [self EXCEPT !.data = [i \in 0..31 |-> shifted_data[i]]]]

\* 2^32 - 1 - k
U32MaxMinus(k) == U32Not(U32FromNat(k))

\* the offsets given to ReportVariable::new: bit_offset % 8 is 0, 3, 0 and 7
BitOffsets == {U32FromNat(0), U32FromNat(3), U32FromNat(8), U32Max}

\* the sizes given to ReportVariable::new: for each offset the largest size
\* that fits in 32 bits and the next one, and sizes whose sum with the offset
\* is 2^32 - 1, 2^32 and more
SmallBitSizes == {0, 1, 8, 25, 26, 29, 30, 32, 33}
BitSizes ==
    {U32FromNat(n) : n \in SmallBitSizes}
    \cup {U32Max, U32MaxMinus(2), U32MaxMinus(6), U32MaxMinus(7)}

\* the data given to set_unsigned: 2^k - 1 for each size k and the next, and
\* the top bit alone
UnsignedData ==
    {Run(0, k) : k \in {n \in SmallBitSizes : n <= 32}}
    \cup {Run(0, k + 1) : k \in {n \in SmallBitSizes : n < 32}}
    \cup {Run(31, 32)}

\* the largest and the smallest two's complement number of n bits, 1 <= n <= 32
\* (2^31 is not an i32, so those of 32 bits are written out)
I32MaxOfBits(n) == IF n = 32 THEN 2147483647 ELSE 2^(n - 1) - 1
I32MinOfBits(n) == IF n = 32 THEN -2147483647 - 1 ELSE -(2^(n - 1))

\* the data given to set_signed: for each size the largest and the smallest
\* value of that many bits and, where an i32 holds them, the next ones
SignedData ==
    {0, -1}
    \cup UNION {{I32MaxOfBits(n), I32MinOfBits(n)} : n \in {k \in SmallBitSizes : 1 <= k /\ k <= 32}}
    \cup UNION {{I32MaxOfBits(n) + 1, I32MinOfBits(n) - 1} :
                  n \in {k \in SmallBitSizes : 1 <= k /\ k < 32}}

NoPipeline ==
    /\ collection = None /\ tag_groups = None /\ tags = None
    /\ tags_cleaned = None /\ tag_items = None /\ bytes = None

\* let v = ReportVariable::new(bit_offset, bit_size)
New ==
    /\ pc = "variable"
    /\ rv = None /\ rv_result = "none"
    /\ \E bit_offset \in BitOffsets, bit_size \in BitSizes :
          LET r == ReportVariable_new(bit_offset, bit_size, overflow_checks) IN
          /\ rv' = r.rv
          /\ rv_result' = r.result
          /\ rv_args' = [call |-> "new", bit_offset |-> bit_offset, bit_size |-> bit_size]
    /\ UNCHANGED <<pc, overflow_checks>>
    /\ UNCHANGED <<pipeline_vars, format_vars, iter_vars, field_vars>>

\* v.set_unsigned(data), on a constructed variable of a running program
SetUnsigned ==
    /\ pc = "variable"
    /\ rv # None /\ rv_result # "panic"
    /\ \E data \in UnsignedData :
          LET r == set_unsigned(unwrap(rv), data, overflow_checks) IN
          /\ rv' = Some(r.rv)
          /\ rv_result' = r.result
          /\ rv_args' = [call |-> "set_unsigned", data |-> data]
    /\ UNCHANGED <<pc, overflow_checks>>
    /\ UNCHANGED <<pipeline_vars, format_vars, iter_vars, field_vars>>

\* v.set_signed(data)
SetSigned ==
    /\ pc = "variable"
    /\ rv # None /\ rv_result # "panic"
    /\ \E data \in SignedData :
          LET r == set_signed(unwrap(rv), data, overflow_checks) IN
          /\ rv' = Some(r.rv)
          /\ rv_result' = r.result
          /\ rv_args' = [call |-> "set_signed", signed |-> data]
    /\ UNCHANGED <<pc, overflow_checks>>
    /\ UNCHANGED <<pipeline_vars, format_vars, iter_vars, field_vars>>

\* v.clear()
Clear ==
    /\ pc = "variable"
    /\ rv # None /\ rv_result # "panic"
    /\ rv' = Some(ReportVariable_clear(unwrap(rv)))
    /\ rv_result' = "Ok"
    /\ rv_args' = [call |-> "clear"]
    /\ UNCHANGED <<pc, overflow_checks>>
    /\ UNCHANGED <<pipeline_vars, format_vars, iter_vars, field_vars>>

\* a ReportVariable and the calls on it, in both builds
InitVariable ==
    /\ pc = "variable"
    /\ overflow_checks \in BOOLEAN
    /\ NoPipeline
    /\ NoVariable /\ NoFormat /\ NoIter /\ NoField

NextVariable == New \/ SetUnsigned \/ SetSigned \/ Clear

SpecVariable == InitVariable /\ [][NextVariable]_vars

\* bound of the buffers given to copy_data_from_slice
MaxBufferLen == 9   \* bytes of the longest buffer

\* the variables copy_data_from_slice is called on: those ReportVariable::new
\* returns for these offsets and sizes
CopyVariables ==
    {unwrap(ReportVariable_new(U32FromNat(o), U32FromNat(n), FALSE).rv) :
        <<o, n>> \in {<<o, n>> \in {0, 3, 13} \X {0, 1, 5, 8, 27, 29, 32} : n + (o % 8) <= 32}}

\* the buffers: all bits set, and a pattern, of several lengths
Buffers ==
    UNION {{[i \in 1..len |-> 255], [i \in 1..len |-> IF i % 2 = 1 THEN 165 ELSE 60]} :
              len \in {0, 1, 5, MaxBufferLen}}

\* the source offsets: each alignment class, in the first and in later bytes
SourceBitOffsets == {0, 3, 7, 8, 13, 32, 61, 64}

\* v.copy_data_from_slice(buffer, bit_offset)
CopyDataFromSlice ==
    /\ pc = "variable"
    /\ rv # None /\ rv_result # "panic"
    /\ \E buffer \in Buffers, bit_offset \in SourceBitOffsets :
          LET r == copy_data_from_slice(unwrap(rv), buffer, bit_offset, overflow_checks) IN
          /\ rv' = Some(r.rv)
          /\ rv_result' = IF r.panic THEN "panic" ELSE "Ok"
          /\ rv_args' = [call |-> "copy_data_from_slice", buffer |-> buffer,
                         source_bit_offset |-> bit_offset]
    /\ UNCHANGED <<pc, overflow_checks>>
    /\ UNCHANGED <<pipeline_vars, format_vars, iter_vars, field_vars>>

\* a constructed ReportVariable and copies into it, in both builds
InitCopy ==
    /\ pc = "variable"
    /\ overflow_checks \in BOOLEAN
    /\ NoPipeline
    /\ rv \in {Some(v) : v \in CopyVariables}
    /\ rv_args = [call |-> "new", bit_offset |-> unwrap(rv).bit_offset,
                  bit_size |-> unwrap(rv).bit_size]
    /\ rv_result = "Ok"
    /\ NoFormat /\ NoIter /\ NoField

NextCopy == CopyDataFromSlice

SpecCopy == InitCopy /\ [][NextCopy]_vars

-----------------------------------------------------------------------------
(* format.rs: ReportItem and ReportFormat *)

\* ReportItem::new
ReportItem(item_type, bit_size) == [item_type |-> item_type, bit_size |-> bit_size]

\* ReportFormat::new_with_opt_id
ReportFormat_new_with_opt_id(report_id) ==
    [report_id |-> report_id, reports |-> <<>>, bit_size |-> U32Zero]

\* `self.bit_size += bit_size`: the format afterwards, or a panic on overflow
add_bit_size(self, bit_size, checks) ==
    LET sum == U32Add(self.bit_size, bit_size) IN
    IF checks /\ sum.overflow THEN [result |-> "panic", format |-> self]
    ELSE [result |-> "Ok", format |-> [self EXCEPT !.bit_size = sum.value]]

\* ReportFormat::push_empty
push_empty(self, bit_size, checks) ==
    LET new == ReportVariable_new(self.bit_size, bit_size, checks) IN
    IF new.result # "Ok" THEN [result |-> new.result, format |-> self]
    ELSE add_bit_size([self EXCEPT !.reports = Append(@, unwrap(new.rv))], bit_size, checks)

\* ReportFormat::push_constant
push_constant(self, bit_size, checks) == add_bit_size(self, bit_size, checks)

RECURSIVE copy_from_iter(_, _, _)
\* ReportFormat::copy_from_iter
copy_from_iter(self, items, checks) ==
    IF Len(items) = 0 THEN [result |-> "Ok", format |-> self]
    ELSE LET item == Head(items)
             pushed == IF item.item_type = "Constant"
                       THEN push_constant(self, item.bit_size, checks)
                       ELSE push_empty(self, item.bit_size, checks)
         IN  IF pushed.result # "Ok" THEN pushed
             ELSE copy_from_iter(pushed.format, Tail(items), checks)

\* ReportFormat::count
count(self) == Len(self.reports)

\* ReportFormat::clear
ReportFormat_clear(self) ==
    [self EXCEPT !.reports = [k \in 1..Len(@) |-> ReportVariable_clear(@[k])]]

RECURSIVE copy_reports(_, _, _, _)
\* the loop of ReportFormat::into_bytes over the reports from the k-th on:
\* the storage afterwards, or a panic when a report starts after the storage
copy_reports(self, k, storage, id_size) ==
    IF k > Len(self.reports) THEN [panic |-> FALSE, bytes |-> storage]
    ELSE LET report_item == self.reports[k]
             size_in_bytes == Len(storage)
             start == id_size + BitsToNat(report_item.bit_offset, 3, 29)
             end == IF start + 4 < size_in_bytes THEN start + 4 ELSE size_in_bytes
             data_bytes == to_le_bytes(report_item.data)
         IN  IF end < start THEN [panic |-> TRUE]   \* end - start, storage[start..end]
             ELSE copy_reports(self, k + 1,
                     [i \in 1..size_in_bytes |->
                         IF start < i /\ i <= end THEN ByteOr(storage[i], data_bytes[i - start])
                         ELSE storage[i]],
                     id_size)

\* ReportFormat::into_bytes, for a format of less than 2^31 bits
ReportFormat_into_bytes(self) ==
    LET id_size == IF is_some(self.report_id) THEN 1 ELSE 0
        size_in_bytes == id_size + (U32ToNat(self.bit_size) + 7) \div 8
        storage == [i \in 1..size_in_bytes |->
                       IF i = 1 /\ is_some(self.report_id) THEN unwrap(self.report_id) ELSE 0]
    IN  copy_reports(self, 1, storage, id_size)

\* bound of the ReportFormat inputs
MaxFormatItems == 3   \* items pushed to a ReportFormat

\* the items pushed: fields that share a byte, cross bytes and fill four
\* bytes, and constants of 4 and of 2^32 - 8 bits
FormatItems ==
    {ReportItem("Variable", U32FromNat(n)) : n \in {4, 12, 32}}
    \cup {ReportItem("Constant", U32FromNat(4)), ReportItem("Constant", U32MaxMinus(7))}

\* the buffer fields are written from, and the value a field of n bits gets
FieldBuffer == <<253, 255, 255, 255>>
FieldValue(n) == [i \in 0..31 |-> IF i < n /\ i # 1 THEN 1 ELSE 0]

FormatRunning == pc = "format" /\ format_result # "panic"

\* format.push_empty(bit_size)
PushEmpty ==
    /\ FormatRunning
    /\ Len(format_log.items) < MaxFormatItems
    /\ \E item \in {i \in FormatItems : i.item_type = "Variable"} :
          LET r == push_empty(format, item.bit_size, overflow_checks) IN
          /\ format' = r.format
          /\ format_result' = r.result
          /\ format_log' = IF r.result = "Ok"
                           THEN [items |-> Append(format_log.items, item),
                                 written |-> Append(format_log.written, U32Zero)]
                           ELSE format_log
    /\ UNCHANGED <<pc, overflow_checks, format_bytes>>
    /\ UNCHANGED <<pipeline_vars, variable_vars, iter_vars, field_vars>>

\* format.push_constant(bit_size)
PushConstant ==
    /\ FormatRunning
    /\ Len(format_log.items) < MaxFormatItems
    /\ \E item \in {i \in FormatItems : i.item_type = "Constant"} :
          LET r == push_constant(format, item.bit_size, overflow_checks) IN
          /\ format' = r.format
          /\ format_result' = r.result
          /\ format_log' = IF r.result = "Ok"
                           THEN [format_log EXCEPT !.items = Append(@, item)]
                           ELSE format_log
    /\ UNCHANGED <<pc, overflow_checks, format_bytes>>
    /\ UNCHANGED <<pipeline_vars, variable_vars, iter_vars, field_vars>>

\* let format = format.copy_from_iter(items)?, on a new format; an Err drops it
CopyFromIter ==
    /\ FormatRunning
    /\ format_result = "none"
    /\ \E items \in SeqsUpTo(FormatItems, MaxFormatItems) :
          LET r == copy_from_iter(format, items, overflow_checks) IN
          /\ format' = IF r.result = "Ok" THEN r.format ELSE None
          /\ format_result' = r.result
          /\ pc' = IF r.result = "TooLargeError" THEN "format_dropped" ELSE pc
          /\ format_log' =
                [items |-> items,
                 written |-> [k \in 1..Cardinality({i \in 1..Len(items) :
                                                       items[i].item_type = "Variable"})
                                |-> U32Zero]]
    /\ UNCHANGED <<overflow_checks, format_bytes>>
    /\ UNCHANGED <<pipeline_vars, variable_vars, iter_vars, field_vars>>

\* a write to the k-th field through iter_mut():
\* field.copy_data_from_slice(&FieldBuffer, 0)
WriteField ==
    /\ FormatRunning
    /\ \E k \in 1..count(format) :
          LET r == copy_data_from_slice(format.reports[k], FieldBuffer, 0, overflow_checks) IN
          /\ format' = [format EXCEPT !.reports[k] = r.rv]
          /\ format_result' = IF r.panic THEN "panic" ELSE "Ok"
          /\ format_log' = [format_log EXCEPT
                               !.written[k] = FieldValue(U32ToNat(format.reports[k].bit_size))]
    /\ UNCHANGED <<pc, overflow_checks, format_bytes>>
    /\ UNCHANGED <<pipeline_vars, variable_vars, iter_vars, field_vars>>

\* format.clear()
FormatClear ==
    /\ FormatRunning
    /\ count(format) > 0
    /\ format' = ReportFormat_clear(format)
    /\ format_result' = "Ok"
    /\ format_log' = [format_log EXCEPT !.written = [k \in 1..Len(@) |-> U32Zero]]
    /\ UNCHANGED <<pc, overflow_checks, format_bytes>>
    /\ UNCHANGED <<pipeline_vars, variable_vars, iter_vars, field_vars>>

\* format.into_bytes(), for a format whose storage the model can build
FormatIntoBytes ==
    /\ FormatRunning
    /\ FitsU16(format.bit_size)
    /\ LET r == ReportFormat_into_bytes(format) IN
       IF r.panic
       THEN format_result' = "panic" /\ pc' = "into_bytes_panic" /\ UNCHANGED format_bytes
       ELSE format_result' = "Ok" /\ pc' = "format_bytes" /\ format_bytes' = r.bytes
    /\ UNCHANGED <<overflow_checks, format, format_log>>
    /\ UNCHANGED <<pipeline_vars, variable_vars, iter_vars, field_vars>>

\* a new ReportFormat with and without an ID and the calls on it, in both builds
InitFormat ==
    /\ pc = "format"
    /\ overflow_checks \in BOOLEAN
    /\ NoPipeline /\ NoVariable /\ NoIter /\ NoField
    /\ format \in {ReportFormat_new_with_opt_id(None), ReportFormat_new_with_opt_id(Some(7))}
    /\ format_log = [items |-> <<>>, written |-> <<>>]
    /\ format_result = "none"
    /\ format_bytes = None

NextFormat ==
    PushEmpty \/ PushConstant \/ CopyFromIter \/ WriteField \/ FormatClear \/ FormatIntoBytes

SpecFormat == InitFormat /\ [][NextFormat]_vars

\* the calls that stage a value, mixed: on a constructed ReportVariable
\* set_unsigned, set_signed, copy_data_from_slice and clear in any order, and
\* on a ReportFormat the pushes, the writes and clear
StagedOffsetsAndSizes == {<<0, 0>>, <<0, 32>>, <<3, 5>>, <<3, 29>>, <<13, 8>>}

InitStaged ==
    \/ /\ InitCopy
       /\ \E <<o, n>> \in StagedOffsetsAndSizes :
             /\ unwrap(rv).bit_offset = U32FromNat(o)
             /\ unwrap(rv).bit_size = U32FromNat(n)
    \/ InitFormat

NextStaged ==
    SetUnsigned \/ SetSigned \/ CopyDataFromSlice \/ Clear \/ NextFormat

SpecStaged == InitStaged /\ [][NextStaged]_vars

-----------------------------------------------------------------------------
(* iter.rs: ReportIter and the ToReportIterator methods of &Collection *)

\* ReportFlags::is_constant: bit_at(self.0, 0)
is_constant(report_flags) == report_flags[0] = 1

\* ReportItem::from_report
ReportItem_from_report(report) ==
    ReportItem(IF is_constant(report.main.report_flags) THEN "Constant" ELSE "Variable",
               report.report_size)

\* ReportIter::over; `remaining` is the part of the slice not yet visited
ReportIter_over(c) == [remaining |-> c.items, subiterator |-> None]

RECURSIVE ReportIter_next_flat(_)
\* ReportIter::next without the descent into nested collections
ReportIter_next_flat(self) ==
    IF Len(self.remaining) = 0 THEN [result |-> None, iter |-> self]
    ELSE LET next_item == Head(self.remaining)
             advanced == [self EXCEPT !.remaining = Tail(@)]
         IN  IF next_item.variant = "Report"
             THEN [result |-> Some(next_item.report), iter |-> advanced]
             ELSE ReportIter_next_flat(advanced)

RECURSIVE ReportIter_next(_)
\* ReportIter::next: the Option it returns and the iterator afterwards
ReportIter_next(self) ==
    LET sub == ReportIter_next(unwrap(self.subiterator))
        asked == IF is_some(self.subiterator)
                 THEN [self EXCEPT !.subiterator = Some(sub.iter)]
                 ELSE self
    IN  IF is_some(self.subiterator) /\ is_some(sub.result)
        THEN [result |-> sub.result, iter |-> asked]
        ELSE IF Len(asked.remaining) = 0 THEN [result |-> None, iter |-> asked]
        ELSE LET next_item == Head(asked.remaining)
                 advanced == [asked EXCEPT !.remaining = Tail(@)]
             IN  IF next_item.variant = "Report"
                 THEN [result |-> Some(next_item.report), iter |-> advanced]
                 ELSE ReportIter_next(
                          [advanced EXCEPT
                              !.subiterator = Some(ReportIter_over(next_item.collection))])

RECURSIVE ReportIter_collect(_)
\* the reports an iterator yields to an adapter, up to its first None
ReportIter_collect(iter) ==
    LET n == ReportIter_next(iter) IN
    IF is_some(n.result) THEN <<unwrap(n.result)>> \o ReportIter_collect(n.iter)
    ELSE <<>>

\* <&Collection as ToReportIterator>::to_report_iter
to_report_iter(self) == ReportIter_over(self)

\* [item].repeat(n)
repeat(item, n) == [i \in 1..n |-> item]

RECURSIVE flat_map_items(_)
\* .flat_map(|report| [ReportItem::from_report(report)].repeat(report.report_count as usize))
flat_map_items(reports) ==
    IF Len(reports) = 0 THEN <<>>
    ELSE repeat(ReportItem_from_report(Head(reports)), U32ToNat(Head(reports).report_count))
         \o flat_map_items(Tail(reports))

\* the report_items of input_report_format, output_report_format and
\* feature_report_format, which differ in the report type they keep
report_items(self, report_type, report_id) ==
    LET of_type(report) == report.main.report_type = report_type
        of_id(report) == report.report_id = report_id
    IN  flat_map_items(SelectSeq(SelectSeq(ReportIter_collect(to_report_iter(self)),
                                           of_type), of_id))

\* ReportFormat::new_with_opt_id(report_id).copy_from_iter(report_items)
report_format(self, report_type, report_id, checks) ==
    copy_from_iter(ReportFormat_new_with_opt_id(report_id),
                   report_items(self, report_type, report_id), checks)

input_report_format(self, report_id, checks) ==
    report_format(self, "Input", report_id, checks)
output_report_format(self, report_id, checks) ==
    report_format(self, "Output", report_id, checks)
feature_report_format(self, report_id, checks) ==
    report_format(self, "Feature", report_id, checks)

\* fold_unique without its test
fold_unique_push_always(vec, item) == Append(vec, item)

\* fold_unique
fold_unique(vec, item) ==
    IF \E i \in 1..Len(vec) : vec[i] = item THEN vec ELSE Append(vec, item)

RECURSIVE fold(_, _)
\* .fold(init, fold_unique)
fold(s, init) ==
    IF Len(s) = 0 THEN init
    ELSE fold_unique(fold(SubSeq(s, 1, Len(s) - 1), init), s[Len(s)])

\* ToReportIterator::input_ids
input_ids(self) ==
    LET is_input(report) == report.main.report_type = "Input"
        inputs == SelectSeq(ReportIter_collect(to_report_iter(self)), is_input)
        report_id_opts == fold([i \in 1..Len(inputs) |-> inputs[i].report_id], <<>>)
    IN  IF Len(report_id_opts) = 1 /\ report_id_opts[1] = None
        THEN [result |-> "Ok", ids |-> <<>>]
        ELSE IF \A i \in 1..Len(report_id_opts) : is_some(report_id_opts[i])
        THEN [result |-> "Ok",
              ids |-> [i \in 1..Len(report_id_opts) |-> unwrap(report_id_opts[i])]]
        ELSE [result |-> "MissingIdError", ids |-> <<>>]

\* a report of the given type, ID, flags, size and count
IterReport(report_type, report_id, flags, report_size, report_count) ==
    [Report_new(ReportMain_new(report_type, U32FromNat(flags)), <<>>, 0, 1,
                report_size, U32FromNat(report_count))
        EXCEPT !.report_id = report_id]

\* reports of the three types, with and without IDs, data and constant, of
\* counts 0, 1 and 2, and sizes up to 2^32 - 1
IterReports ==
    {IterReport("Input", None, 2, U32FromNat(3), 1),
     IterReport("Input", None, 2, U32Max, 1),
     IterReport("Input", Some(1), 3, U32FromNat(5), 2),
     IterReport("Input", Some(1), 2, U32FromNat(32), 1),
     IterReport("Input", Some(2), 6, U32FromNat(8), 0),
     IterReport("Output", Some(1), 2, U32FromNat(30), 2),
     IterReport("Feature", None, 1, U32FromNat(7), 1)}

\* nested collections: an empty one, one of a report, and one with a
\* collection between two reports
IterInnerCollections ==
    LET R(n) == ReportItemOf(IterReport("Input", Some(n), 2, U32FromNat(n), 1))
        C(items) == CollectionItemOf(Collection_new("Logical", Extended(U32FromNat(5)), items))
    IN  {C(<<>>), C(<<R(2)>>), C(<<R(1), C(<<R(2), C(<<>>)>>), R(4)>>)}

\* collections of up to three items, each a report or a nested collection
IterCollections ==
    {Collection_new("Application", Extended(U32FromNat(5)), items) :
        items \in SeqsUpTo({ReportItemOf(r) : r \in IterReports} \cup IterInnerCollections, 3)}

ReportIds == {None, Some(1), Some(2)}

\* let a = collection.to_report_iter(); let b = collection.to_report_iter();
ToReportIter ==
    /\ pc = "collection"
    /\ pc' = "iter"
    /\ report_iter' = <<to_report_iter(collection), to_report_iter(collection)>>
    /\ yielded' = <<<<>>, <<>>>>
    /\ UNCHANGED <<overflow_checks, tag_iter, ids>>
    /\ UNCHANGED <<pipeline_vars, variable_vars, format_vars, field_vars>>

\* a.next() or b.next()
IterNext ==
    /\ pc = "iter"
    /\ \E i \in 1..Len(report_iter) :
          LET n == ReportIter_next(report_iter[i]) IN
          /\ Cardinality({k \in 1..Len(yielded[i]) : yielded[i][k] = None}) < MaxExhausted
          /\ report_iter' = [report_iter EXCEPT ![i] = n.iter]
          /\ yielded' = [yielded EXCEPT ![i] = Append(@, n.result)]
    /\ UNCHANGED <<pc, overflow_checks, tag_iter, ids>>
    /\ UNCHANGED <<pipeline_vars, variable_vars, format_vars, field_vars>>

\* collection.input_ids()
InputIds ==
    /\ pc = "collection"
    /\ pc' = "ids"
    /\ ids' = input_ids(collection)
    /\ UNCHANGED <<overflow_checks, report_iter, tag_iter, yielded>>
    /\ UNCHANGED <<pipeline_vars, variable_vars, format_vars, field_vars>>

\* what a call of one of the three report_format methods leaves
ReportFormatCalled(report_type, report_id, r) ==
    /\ pc = "collection"
    /\ pc' = IF r.result = "panic" THEN "panic" ELSE "report_format"
    /\ format' = IF r.result = "Ok" THEN r.format ELSE None
    /\ format_result' = r.result
    /\ format_log' = [items |-> report_items(collection, report_type, report_id),
                      written |-> <<>>,
                      report_type |-> report_type, report_id |-> report_id]
    /\ UNCHANGED <<overflow_checks, format_bytes>>
    /\ UNCHANGED <<pipeline_vars, variable_vars, iter_vars, field_vars>>

\* collection.input_report_format(report_id)
InputReportFormat ==
    \E report_id \in ReportIds :
        ReportFormatCalled("Input", report_id,
                           input_report_format(collection, report_id, overflow_checks))

\* collection.output_report_format(report_id)
OutputReportFormat ==
    \E report_id \in ReportIds :
        ReportFormatCalled("Output", report_id,
                           output_report_format(collection, report_id, overflow_checks))

\* collection.feature_report_format(report_id)
FeatureReportFormat ==
    \E report_id \in ReportIds :
        ReportFormatCalled("Feature", report_id,
                           feature_report_format(collection, report_id, overflow_checks))

\* a collection and the calls on a shared reference to it, in both builds
InitIter ==
    /\ pc = "collection"
    /\ overflow_checks \in BOOLEAN
    /\ collection \in IterCollections
    /\ tag_groups = None /\ tags = None /\ tags_cleaned = None
    /\ tag_items = None /\ bytes = None
    /\ NoVariable /\ NoFormat /\ NoIter /\ NoField

NextIter ==
    ToReportIter \/ IterNext \/ InputIds
    \/ InputReportFormat \/ OutputReportFormat \/ FeatureReportFormat

SpecIter == InitIter /\ [][NextIter]_vars

-----------------------------------------------------------------------------
(* Properties of the descriptor bytes *)

\* Table 1: the prefix code of each tag, low two bits zero
Table1(kind) ==
    CASE kind = "Input" -> 128 [] kind = "Output" -> 144 [] kind = "Feature" -> 176
      [] kind = "Collection" -> 160 [] kind = "EndCollection" -> 192
      [] kind = "UsagePage" -> 4 [] kind = "LogicalMinimum" -> 20
      [] kind = "LogicalMaximum" -> 36 [] kind = "PhysicalMinimum" -> 52
      [] kind = "PhysicalMaximum" -> 68 [] kind = "UnitExponent" -> 84
      [] kind = "Unit" -> 100 [] kind = "ReportSize" -> 116 [] kind = "ReportId" -> 132
      [] kind = "ReportCount" -> 148 [] kind = "Push" -> 164 [] kind = "Pop" -> 180
      [] kind \in {"ExtendedUsage", "UsageId"} -> 8
      [] kind \in {"ExtendedUsageMinimum", "UsageMinimumId"} -> 24
      [] kind \in {"ExtendedUsageMaximum", "UsageMaximumId"} -> 40
      [] kind = "DesignatorIndex" -> 56 [] kind = "DesignatorMinimum" -> 72
      [] kind = "DesignatorMaximum" -> 88 [] kind = "StringIndex" -> 120
      [] kind = "StringMinimum" -> 136 [] kind = "StringMaximum" -> 152
      [] kind = "Delimiter" -> 168

\* the number of data bytes a size code declares
DataBytes(size_code) == IF size_code = 3 THEN 4 ELSE size_code

\* the type code of a Main, Global or Local tag
TypeCode(type) == CASE type = "Main" -> 0 [] type = "Global" -> 1 [] type = "Local" -> 2

RECURSIVE Walk(_)
\* the short items read from byte 1 on: each a prefix and the data bytes its
\* size code declares; an item cut short by the end of the bytes is marked
Walk(b) ==
    IF Len(b) = 0 THEN <<>>
    ELSE LET n == DataBytes(b[1] % 4) IN
         IF Len(b) < 1 + n
         THEN <<[prefix |-> b[1], data |-> SubSeq(b, 2, Len(b)), cut |-> TRUE]>>
         ELSE <<[prefix |-> b[1], data |-> SubSeq(b, 2, 1 + n), cut |-> FALSE]>>
              \o Walk(SubSeq(b, 2 + n, Len(b)))

RECURSIVE SumOfLengths(_)
\* the sum of the byte lengths (prefix and data) of a sequence of ShortItems
SumOfLengths(items) ==
    IF Len(items) = 0 THEN 0
    ELSE 1 + DataBytes(Head(items).size_type_tag % 4) + SumOfLengths(Tail(items))

\* C1: the bytes of Collection::into_bytes walk from byte 0 as short items,
\* one per tag of the deduplicated sequence and in its order: the prefix is
\* the tag's Table 1 constant plus the size code, the data bytes are the
\* little-endian bytes of the item's data, as many as the size code declares,
\* the walk ends at the end of the bytes (whose length is the sum of the item
\* lengths), and the type bits are the class Tag::tag_type gives the tag.
C1_BytesWalkAsShortItems ==
    pc = "bytes" =>
        LET w == Walk(bytes) IN
        /\ Len(w) = Len(tags_cleaned)
        /\ Len(bytes) = SumOfLengths(tag_items)
        /\ \A i \in 1..Len(w) :
            /\ ~w[i].cut
            /\ w[i].prefix = Table1(tags_cleaned[i].kind) + (w[i].prefix % 4)
            /\ (w[i].prefix \div 4) % 4 = TypeCode(tag_type(tags_cleaned[i]))
            /\ w[i].data = SubSeq(to_le_bytes(tag_items[i].data), 1, Len(w[i].data))
            /\ Len(w[i].data) \in {0, 1, 2, 4}

\* C1 witness: a descriptor was encoded from which duplicates were removed and
\* which holds items of 0, 1, 2 and 4 data bytes
C1_Witness ==
    /\ pc = "bytes"
    /\ Len(tags_cleaned) < Len(tags)
    /\ \A n \in {0, 1, 2, 4} : \E i \in 1..Len(tag_items) :
          DataBytes(tag_items[i].size_type_tag % 4) = n

-----------------------------------------------------------------------------
(* Properties of the tag order *)

OptTag(opt, kind) == IF is_some(opt) THEN <<Tag(kind, unwrap(opt))>> ELSE <<>>

\* the tags of a usage in the form named by `id_kind` and `extended_kind`
UsageTags(usage, id_kind, extended_kind) ==
    IF usage.variant = "Standard"
    THEN <<Tag("UsagePage", usage.page), Tag(id_kind, usage.id)>>
    ELSE <<Tag(extended_kind, usage.usage)>>

RECURSIVE ExpectedUsageSetTags(_)
\* the tags of a usage set: per range, the usage if the range holds one usage,
\* else its minimum and its maximum
ExpectedUsageSetTags(set) ==
    IF Len(set) = 0 THEN <<>>
    ELSE LET r == Head(set) IN
         (IF Usage_as_u32(r.min) = Usage_as_u32(r.max)
          THEN UsageTags(r.min, "UsageId", "ExtendedUsage")
          ELSE UsageTags(r.min, "UsageMinimumId", "ExtendedUsageMinimum")
               \o UsageTags(r.max, "UsageMaximumId", "ExtendedUsageMaximum"))
         \o ExpectedUsageSetTags(Tail(set))

\* the tags of a report, in the order the specification gives
ExpectedReportTags(r) ==
    ExpectedUsageSetTags(r.usage_set)
    \o <<Tag("LogicalMinimum", r.logical_minimum), Tag("LogicalMaximum", r.logical_maximum),
         Tag("ReportSize", r.report_size), Tag("ReportCount", r.report_count)>>
    \o OptTag(r.physical_minimum, "PhysicalMinimum")
    \o OptTag(r.physical_maximum, "PhysicalMaximum")
    \o OptTag(r.unit_exponent, "UnitExponent")
    \o OptTag(r.unit, "Unit")
    \o OptTag(r.report_id, "ReportId")
    \o <<Tag(r.main.report_type, r.main.report_flags)>>

RECURSIVE ExpectedCollectionTags(_)
RECURSIVE ExpectedItemsTags(_)
\* the tags of a collection, and of its items, in the order the specification gives
ExpectedCollectionTags(c) ==
    UsageTags(c.usage, "UsageId", "ExtendedUsage")
    \o OptTag(c.designator_index, "DesignatorIndex")
    \o OptTag(c.string_index, "StringIndex")
    \o OptTag(c.delimiter, "Delimiter")
    \o <<Tag("Collection", c.collection_type)>>
    \o ExpectedItemsTags(c.items)
    \o <<UnitTag("EndCollection")>>
ExpectedItemsTags(items) ==
    IF Len(items) = 0 THEN <<>>
    ELSE (IF Head(items).variant = "Report"
          THEN ExpectedReportTags(Head(items).report)
          ELSE ExpectedCollectionTags(Head(items).collection))
         \o ExpectedItemsTags(Tail(items))

Flattened == pc \in {"tags", "tags_cleaned", "tag_items", "bytes"}

\* C2: TagGroup::collection followed by flattening gives the usage group
\* (UsagePage and UsageId, or ExtendedUsage alone), then DesignatorIndex,
\* StringIndex and Delimiter in that order, each only if present, then
\* Collection(collection_type), then the tags of every child in item order
\* (nested collections in the same shape), then EndCollection.
C2_CollectionTagOrder ==
    Flattened => tags = ExpectedCollectionTags(collection)

\* C2 witness: the flattened tags of a collection with an extended usage, all
\* three optional fields, a report and a nested collection that has an item
C2_Witness ==
    /\ Flattened
    /\ collection.usage.variant = "Extended"
    /\ is_some(collection.designator_index)
    /\ is_some(collection.string_index)
    /\ is_some(collection.delimiter)
    /\ \E i, j \in 1..Len(collection.items) :
          /\ collection.items[i].variant = "Report"
          /\ collection.items[j].variant = "Collection"
          /\ Len(collection.items[j].collection.items) > 0

RECURSIVE ReportsOf(_)
\* the reports of a collection, depth first in item order
ReportsOf(items) ==
    IF Len(items) = 0 THEN <<>>
    ELSE (IF Head(items).variant = "Report" THEN <<Head(items).report>>
          ELSE ReportsOf(Head(items).collection.items))
         \o ReportsOf(Tail(items))

ReportMainKinds == {"Input", "Output", "Feature"}

\* the positions of the Input, Output and Feature tags of a tag sequence
ReportMainPositions(s) == {i \in 1..Len(s) : s[i].kind \in ReportMainKinds}

\* the group of tags that ends with the Main tag at position i: the tags after
\* the previous Main tag, up to and including position i
GroupEndingAt(s, i) ==
    LET before == {j \in 1..(i - 1) : tag_type(s[j]) = "Main"}
        start == IF before = {} THEN 1
                 ELSE 1 + CHOOSE j \in before : \A k \in before : k <= j
    IN  SubSeq(s, start, i)

\* C3: the flattened tags of every report are the usage-set group, then
\* LogicalMinimum, LogicalMaximum, ReportSize, ReportCount, then
\* PhysicalMinimum, PhysicalMaximum, UnitExponent, Unit, ReportId (each only
\* if set, in that order), then one Main tag (Input, Output or Feature by the
\* report's type) that carries the flags and is the last tag of the group:
\* the k-th group of tags that ends with an Input, Output or Feature tag is
\* the k-th report's.
C3_ReportTagOrder ==
    Flattened =>
        LET reports == ReportsOf(collection.items)
            ends == ReportMainPositions(tags)
        IN  /\ Cardinality(ends) = Len(reports)
            /\ \A i \in ends :
                  GroupEndingAt(tags, i)
                      = ExpectedReportTags(reports[Cardinality({j \in ends : j <= i})])

\* C3 witness: the flattened tags of a Feature report that has a usage set
\* and every optional global field
C3_Witness ==
    /\ Flattened
    /\ \E i \in 1..Len(collection.items) :
          /\ collection.items[i].variant = "Report"
          /\ LET r == collection.items[i].report IN
             /\ r.main.report_type = "Feature"
             /\ Len(r.usage_set) > 0
             /\ \A f \in OptionalGlobals : is_some(r[f])

-----------------------------------------------------------------------------
(* Properties of the duplicate elimination *)

Optimized == pc \in {"tags_cleaned", "tag_items", "bytes"}

IsGlobal(tag) == tag_type(tag) = "Global"

\* the positions before i of the Global tags of the kind of s[i]
EarlierOfKind(s, i) == {j \in 1..(i - 1) : s[j].kind = s[i].kind}

\* whether s[i] is a Global tag whose value is that of the most recent earlier
\* Global tag of its kind in s
RepeatsPrevious(s, i) ==
    /\ IsGlobal(s[i])
    /\ EarlierOfKind(s, i) # {}
    /\ LET j == CHOOSE j \in EarlierOfKind(s, i) : \A k \in EarlierOfKind(s, i) : k <= j
       IN  s[j] = s[i]

RECURSIVE SelectPositions(_, _, _)
\* the tags of s at the positions from i on that are in `keep`, in order
SelectPositions(s, keep, i) ==
    IF i > Len(s) THEN <<>>
    ELSE (IF i \in keep THEN <<s[i]>> ELSE <<>>) \o SelectPositions(s, keep, i + 1)

\* C4: remove_duplicates drops a Global tag exactly when its value is the
\* value of the most recent earlier Global tag of the same kind in the input,
\* whether that one was dropped or kept; every other tag is kept, and so the
\* first Global tag of each kind is kept.
C4_DropsExactlyRepeats ==
    Optimized =>
        tags_cleaned
            = SelectPositions(tags, {i \in 1..Len(tags) : ~RepeatsPrevious(tags, i)}, 1)

\* C4 witness: a Global tag was dropped for repeating the previous one of its
\* kind, and a later Global tag of that kind with another value was kept
C4_Witness ==
    /\ Optimized
    /\ \E i, j \in 1..Len(tags) :
          /\ i < j
          /\ RepeatsPrevious(tags, i)
          /\ tags[j].kind = tags[i].kind
          /\ ~RepeatsPrevious(tags, j)

RECURSIVE IsSubsequence(_, _)
\* whether a is b with some elements left out
IsSubsequence(a, b) ==
    IF Len(a) = 0 THEN TRUE
    ELSE IF Len(b) = 0 THEN FALSE
    ELSE IF Head(a) = Head(b) THEN IsSubsequence(Tail(a), Tail(b))
    ELSE IsSubsequence(a, Tail(b))

\* the Main and Local tags of s, in order
NotGlobal(s) == SelectPositions(s, {i \in 1..Len(s) : ~IsGlobal(s[i])}, 1)

\* C5: the output of remove_duplicates is a subsequence of its input that
\* holds every Main and every Local tag of the input in their order: only
\* Global tags are removed.
C5_OnlyGlobalsRemoved ==
    Optimized =>
        /\ IsSubsequence(tags_cleaned, tags)
        /\ NotGlobal(tags_cleaned) = NotGlobal(tags)

\* C5 witness: a Global tag was removed from an input in which a Main or Local
\* tag follows it
C5_Witness ==
    /\ Optimized
    /\ Len(tags_cleaned) < Len(tags)
    /\ \E i \in 2..Len(tags) : ~IsGlobal(tags[i]) /\ RepeatsPrevious(tags, i - 1)

\* C6: remove_duplicates is idempotent, and in its output no Global tag has
\* the value of the previous kept Global tag of its kind.
C6_Idempotent ==
    Optimized =>
        /\ remove_duplicates(tags_cleaned) = [panic |-> FALSE, tags |-> tags_cleaned]
        /\ \A i \in 1..Len(tags_cleaned) : ~RepeatsPrevious(tags_cleaned, i)

\* C6 witness: an output from which a tag was removed and that still holds
\* two Global tags of one kind
C6_Witness ==
    /\ Optimized
    /\ Len(tags_cleaned) < Len(tags)
    /\ \E i, j \in 1..Len(tags_cleaned) :
          i < j /\ IsGlobal(tags_cleaned[i]) /\ tags_cleaned[i].kind = tags_cleaned[j].kind

-----------------------------------------------------------------------------
(* Properties of the shrunk data *)

\* the tags whose item is made by ItemPrefix::with_shrunk_u32
UnsignedShrunkKinds ==
    {"Input", "Output", "Feature", "UsagePage", "Unit", "ReportSize", "ReportCount",
     "UsageId", "UsageMinimumId", "UsageMaximumId", "DesignatorIndex",
     "DesignatorMinimum", "DesignatorMaximum", "StringIndex", "StringMinimum",
     "StringMaximum", "Delimiter"}

\* the tags whose item is made by ItemPrefix::with_shrunk_i32
SignedShrunkKinds == I32Kinds

\* the u32 an unsigned shrunk tag gives to with_shrunk_u32
UnsignedValue(tag) ==
    IF tag.kind \in U32Kinds THEN payload(tag)
    ELSE IF tag.kind = "Delimiter" THEN U32FromNat(IF payload(tag) THEN 1 ELSE 0)
    ELSE U32FromNat(payload(tag))

\* the u32 whose little-endian bytes are `data`, the bytes above them zero
ZeroExtend(data) ==
    [i \in 0..31 |-> IF i \div 8 < Len(data) THEN (data[1 + i \div 8] \div (2^(i % 8))) % 2
                     ELSE 0]

\* the i32 whose little-endian two's complement bytes are `data`
SignExtend(data) ==
    LET n == Len(data)
        low == BitsToNat(ZeroExtend(data), 0, 8 * n - 1)
    IN  IF data[n] < 128 THEN low
        ELSE IF n = 4 THEN (low - 2^30) - 2^30
        ELSE low - 2^(8 * n - 1)

\* whether an unsigned value round-trips through `width` data bytes
RoundTripsUnsigned(value, width) == \A i \in 0..31 : i >= 8 * width => value[i] = 0

\* whether a signed value round-trips through `width` data bytes
RoundTripsSigned(value, width) ==
    width = 4 \/ (-(2^(8 * width - 1)) <= value /\ value < 2^(8 * width - 1))

Encoded == pc = "bytes" /\ Len(tags_cleaned) = 1

\* C7: unsigned shrink chooses the smallest data width among 0, 1, 2 and 4
\* bytes through which the value round-trips.
C7_SmallestUnsignedWidth ==
    (Encoded /\ tags_cleaned[1].kind \in UnsignedShrunkKinds) =>
        LET value == UnsignedValue(tags_cleaned[1])
            width == Len(bytes) - 1
        IN  /\ width \in {0, 1, 2, 4}
            /\ RoundTripsUnsigned(value, width)
            /\ \A w \in {0, 1, 2, 4} : RoundTripsUnsigned(value, w) => width <= w

\* C8: zero-extending the data bytes of unsigned shrink, as many as the size
\* code names, gives the value; sign-extending the data bytes of signed
\* shrink, whose width is the smallest of 1, 2 and 4 bytes, gives the value.
C8_ShrinkRoundTrip ==
    Encoded =>
        LET tag == tags_cleaned[1]
            width == DataBytes(bytes[1] % 4)
            data == SubSeq(bytes, 2, 1 + width)
        IN  /\ tag.kind \in UnsignedShrunkKinds =>
                /\ Len(bytes) = 1 + width
                /\ ZeroExtend(data) = UnsignedValue(tag)
            /\ tag.kind \in SignedShrunkKinds =>
                /\ Len(bytes) = 1 + width
                /\ width \in {1, 2, 4}
                /\ SignExtend(data) = payload(tag)
                /\ \A w \in {1, 2, 4} : RoundTripsSigned(payload(tag), w) => width <= w

\* C8 witness: a negative value outside the i8 range was encoded in two bytes
C8_Witness ==
    /\ Encoded
    /\ tags_cleaned[1].kind \in SignedShrunkKinds
    /\ payload(tags_cleaned[1]) < -128
    /\ Len(bytes) = 3

-----------------------------------------------------------------------------
(* Properties of ReportVariable *)

\* whether bit_size + (bit_offset mod 8) > 32 as a sum of numbers
SumExceeds32(bit_offset, bit_size) ==
    \/ \E i \in 6..31 : bit_size[i] = 1
    \/ BitsToNat(bit_size, 0, 6) + BitsToNat(bit_offset, 0, 3) > 32

AfterNew == pc = "variable" /\ rv_args # None /\ rv_args.call = "new"

\* C9: ReportVariable::new fails with TooLargeError exactly when
\* bit_size + (bit_offset mod 8) > 32 as a sum of numbers, and otherwise
\* succeeds with the staged value 0; every constructed ReportVariable has
\* bit_size + (bit_offset mod 8) <= 32.
C9_NewFailsExactlyWhenTooLarge ==
    /\ AfterNew =>
          IF SumExceeds32(rv_args.bit_offset, rv_args.bit_size)
          THEN rv_result = "TooLargeError" /\ rv = None
          ELSE /\ rv_result = "Ok"
               /\ rv = Some(ReportVariable(rv_args.bit_offset, rv_args.bit_size, U32Zero))
    /\ (pc = "variable" /\ rv # None) =>
          ~SumExceeds32(unwrap(rv).bit_offset, unwrap(rv).bit_size)

AfterSetUnsigned == pc = "variable" /\ rv_args # None /\ rv_args.call = "set_unsigned"

\* whether every bit of v at position n or above is zero
FitsBits(v, n) == \A i \in 0..31 : i >= n => v[i] = 0

\* C10: on a ReportVariable with bit_size in 0..=32, set_unsigned(v) succeeds
\* exactly when every bit of v at position bit_size or above is zero (every v
\* with bit_size = 32) and fails with DataOutOfBoundsError otherwise; on
\* success the staged value is v shifted left by bit_offset mod 8.
C10_SetUnsignedAcceptsExactlyFitting ==
    (AfterSetUnsigned /\ U32AtMost32(unwrap(rv).bit_size)) =>
        LET self == unwrap(rv)
            v == rv_args.data
        IN  IF FitsBits(v, BitsToNat(self.bit_size, 0, 6))
            THEN /\ rv_result = "Ok"
                 /\ self.data = U32Shl(v, BitsToNat(self.bit_offset, 0, 3))
            ELSE rv_result = "DataOutOfBoundsError"

AfterSetSigned == pc = "variable" /\ rv_args # None /\ rv_args.call = "set_signed"

\* whether bit_size is in 1..=32
SizeIn1To32(self) == U32AtMost32(self.bit_size) /\ self.bit_size # U32Zero

\* whether v is a two's complement number of n bits, 1 <= n <= 32
Representable(v, n) == I32MinOfBits(n) <= v /\ v <= I32MaxOfBits(n)

\* C11: on a ReportVariable with bit_size in 1..=32, set_signed(v) succeeds
\* exactly when -2^(bit_size-1) <= v <= 2^(bit_size-1)-1, and every other v
\* fails with DataOutOfBoundsError.
C11_SetSignedAcceptsExactlyRepresentable ==
    (AfterSetSigned /\ SizeIn1To32(unwrap(rv))) =>
        IF Representable(rv_args.signed, BitsToNat(unwrap(rv).bit_size, 0, 6))
        THEN rv_result = "Ok"
        ELSE rv_result = "DataOutOfBoundsError"

\* the i32 read from `data`: shifted right by `shift`, n bits kept, sign-extended
ExtractSigned(data, shift, n) ==
    LET field == U32Shr(data, shift)
        low == BitsToNat(field, 0, n - 1)
    IN  IF field[n - 1] = 0 THEN low
        ELSE IF n = 32 THEN (low - 2^30) - 2^30
        ELSE low - 2^(n - 1)

\* C12: on a ReportVariable with bit_size in 1..=32, set_signed(v) of a v
\* representable in bit_size bits succeeds and stores the low bit_size bits
\* of v shifted left by bit_offset mod 8: shifting data() right by
\* bit_offset mod 8, keeping bit_size bits and sign-extending gives v.
C12_SetSignedRoundTrip ==
    (/\ AfterSetSigned /\ SizeIn1To32(unwrap(rv))
     /\ Representable(rv_args.signed, BitsToNat(unwrap(rv).bit_size, 0, 6))) =>
        LET self == unwrap(rv)
            n == BitsToNat(self.bit_size, 0, 6)
            shift == BitsToNat(self.bit_offset, 0, 3)
            v == rv_args.signed
        IN  /\ rv_result = "Ok"
            /\ self.data = U32Shl([i \in 0..31 |-> IF i < n THEN I32AsU32(v)[i] ELSE 0], shift)
            /\ ExtractSigned(self.data, shift, n) = v

AfterCopy == pc = "variable" /\ rv_args # None /\ rv_args.call = "copy_data_from_slice"

\* bit k of a byte buffer, the low bit of byte 1 being bit 0
BufferBit(buffer, k) == (buffer[1 + k \div 8] \div 2^(k % 8)) % 2

\* whether the buffer holds every bit of the window
CoversWindow(buffer, source_bit_offset, bit_size) ==
    source_bit_offset + bit_size <= 8 * Len(buffer)

\* the value set_unsigned(x) stores for the x formed by the n buffer bits
\* from source_bit_offset on: those bits, moved to position shift
WindowValue(buffer, source_bit_offset, n, shift) ==
    [i \in 0..31 |-> IF shift <= i /\ i < shift + n
                     THEN BufferBit(buffer, source_bit_offset + i - shift) ELSE 0]

\* C13: for every buffer that covers the window and every source_bit_offset,
\* copy_data_from_slice completes and leaves the staged value equal to what
\* set_unsigned stores for the number formed by the bit_size buffer bits
\* starting at source_bit_offset; the other bits of the buffer have no
\* influence.
C13_CopyTakesTheWindow ==
    (/\ AfterCopy
     /\ CoversWindow(rv_args.buffer, rv_args.source_bit_offset, U32ToNat(unwrap(rv).bit_size))) =>
        /\ rv_result = "Ok"
        /\ unwrap(rv).data = WindowValue(rv_args.buffer, rv_args.source_bit_offset,
                                         U32ToNat(unwrap(rv).bit_size),
                                         BitsToNat(unwrap(rv).bit_offset, 0, 3))

-----------------------------------------------------------------------------
(* Properties of ReportFormat *)

\* the number of ID bytes of the format
IdBytes == IF is_some(format.report_id) THEN 1 ELSE 0

\* C14: ReportFormat::into_bytes returns ceil(total_bit_size/8) bytes, and one
\* more if a report_id is present, which then is byte 0 with every field one
\* byte later, after any sequence of push_empty/push_constant and field writes.
C14_IntoBytesLength ==
    /\ pc # "into_bytes_panic"
    /\ pc = "format_bytes" =>
          /\ Len(format_bytes) = (U32ToNat(format.bit_size) + 7) \div 8 + IdBytes
          /\ is_some(format.report_id) => format_bytes[1] = unwrap(format.report_id)

\* whether payload bit p (after the ID byte) is a bit of the k-th field
InField(k, p) ==
    LET field == format.reports[k] IN
    /\ FitsU16(field.bit_offset)
    /\ U32ToNat(field.bit_offset) <= p
    /\ p < U32ToNat(field.bit_offset) + U32ToNat(field.bit_size)

\* the payload bits the returned bytes hold
PayloadBits == 0..(8 * (Len(format_bytes) - IdBytes) - 1)

\* C15: in the bytes of ReportFormat::into_bytes the payload bits (after the
\* optional ID byte) at positions bit_offset .. bit_offset+bit_size-1 are the
\* value last written to that field, for every field, also for fields that
\* share a byte and fields whose 4-byte window is clipped by the end of the
\* buffer; every payload bit of no field is 0.
C15_FieldsComposeWithoutLoss ==
    /\ pc # "into_bytes_panic"
    /\ pc = "format_bytes" =>
          /\ \A k \in 1..Len(format.reports) :
                \A j \in 0..(U32ToNat(format.reports[k].bit_size) - 1) :
                    LET p == U32ToNat(format.reports[k].bit_offset) + j IN
                    /\ InField(k, p)
                    /\ p \in PayloadBits
                    /\ BufferBit(format_bytes, 8 * IdBytes + p) = format_log.written[k][j]
          /\ \A p \in PayloadBits :
                (\A k \in 1..Len(format.reports) : ~InField(k, p))
                    => BufferBit(format_bytes, 8 * IdBytes + p) = 0

RECURSIVE SumOfSizes(_)
\* the sum of the bit sizes of items: its low 32 bits, and whether it is 2^32
\* or more
SumOfSizes(items) ==
    IF Len(items) = 0 THEN [value |-> U32Zero, overflow |-> FALSE]
    ELSE LET rest == SumOfSizes(SubSeq(items, 1, Len(items) - 1))
             sum == U32Add(rest.value, items[Len(items)].bit_size)
         IN  [value |-> sum.value, overflow |-> rest.overflow \/ sum.overflow]

\* whether the u32 x is the sum of the bit sizes of items
IsSumOfSizes(x, items) == ~SumOfSizes(items).overflow /\ x = SumOfSizes(items).value

\* the positions of the Variable items among items
VariablePositions(items) == {i \in 1..Len(items) : items[i].item_type = "Variable"}

\* the position among items of the k-th Variable item
VariablePosition(items, k) ==
    CHOOSE i \in VariablePositions(items) :
        Cardinality({j \in VariablePositions(items) : j <= i}) = k

Pushed == pc \in {"format", "format_bytes"} /\ format_result = "Ok"

\* C16: after copy_from_iter, or a sequence of push_constant/push_empty
\* calls, over items succeeds, the k-th ReportVariable has the size of the
\* k-th Variable item and the sum of the sizes of all items before it as its
\* bit_offset, count() is the number of Variable items, and the total bit
\* size is the sum of all item sizes; Constant items create no ReportVariable.
C16_OffsetsAreRunningSums ==
    Pushed =>
        LET items == format_log.items IN
        /\ count(format) = Cardinality(VariablePositions(items))
        /\ IsSumOfSizes(format.bit_size, items)
        /\ \A k \in 1..count(format) :
              LET i == VariablePosition(items, k) IN
              /\ format.reports[k].bit_size = items[i].bit_size
              /\ IsSumOfSizes(format.reports[k].bit_offset, SubSeq(items, 1, i - 1))

-----------------------------------------------------------------------------
(* Properties of the report walk and the formats built from it *)

\* the reports of a collection that have the given type and exactly the given ID
MatchingReports(c, report_type, report_id) ==
    LET matches(report) ==
            /\ report.main.report_type = report_type
            /\ report.report_id = report_id
    IN  SelectSeq(ReportsOf(c.items), matches)

RECURSIVE ExpectedItems(_)
\* report_count copies of {Constant or Variable, report_size} for each report
ExpectedItems(reports) ==
    IF Len(reports) = 0 THEN <<>>
    ELSE LET r == Head(reports)
             item == [item_type |-> IF r.main.report_flags[0] = 1 THEN "Constant"
                                    ELSE "Variable",
                      bit_size |-> r.report_size]
         IN  [i \in 1..U32ToNat(r.report_count) |-> item] \o ExpectedItems(Tail(reports))

RECURSIVE OffsetMod8(_, _)
\* the sum of the sizes of the first n items, modulo 8
OffsetMod8(items, n) ==
    IF n = 0 THEN 0
    ELSE (OffsetMod8(items, n - 1) + BitsToNat(items[n].bit_size, 0, 3)) % 8

\* some Variable item starts at an offset with size + (offset mod 8) > 32
SomeVariableTooLarge(items) ==
    \E i \in VariablePositions(items) :
        SumExceeds32(U32FromNat(OffsetMod8(items, i - 1)), items[i].bit_size)

ReportFormatReturned == pc \in {"report_format", "panic"} /\ format_log # None

\* C17: input_report_format, output_report_format and feature_report_format
\* with argument report_id feed the builder, for the reports in traversal
\* order that have the type and exactly that report_id, report_count copies
\* of {Constant if the constant flag is set else Variable, report_size};
\* the resulting format carries report_id; the call fails with TooLargeError
\* exactly when some Variable item would start at an offset with
\* report_size + (offset mod 8) > 32, and otherwise succeeds.
C17_ReportFormatOfMatchingReports ==
    ReportFormatReturned =>
        LET expected == ExpectedItems(MatchingReports(collection, format_log.report_type,
                                                      format_log.report_id))
        IN  /\ format_log.items = expected
            /\ format_result = (IF SomeVariableTooLarge(expected) THEN "TooLargeError"
                                ELSE "Ok")
            /\ format_result = "Ok" => format.report_id = format_log.report_id

\* the input reports of the walked collection, in traversal order
InputReports ==
    LET is_input(report) == report.main.report_type = "Input"
    IN  SelectSeq(ReportsOf(collection.items), is_input)

\* the elements of s without those that occurred earlier in s
FirstSeen(s) ==
    SelectPositions(s, {i \in 1..Len(s) : \A j \in 1..(i - 1) : s[j] # s[i]}, 1)

IdsReturned == pc = "ids"

\* C18: input_ids depends on the input reports only: it returns an empty
\* list if none of them carries a report_id, the distinct IDs in first-seen
\* traversal order if every one carries a report_id, and fails with
\* MissingIdError if some carry one and some do not.
C18_InputIdsAllOrNone ==
    IdsReturned =>
        LET with_id == {i \in 1..Len(InputReports) : InputReports[i].report_id # None}
        IN  /\ with_id = {} => ids = [result |-> "Ok", ids |-> <<>>]
            /\ with_id = 1..Len(InputReports) =>
                  ids = [result |-> "Ok",
                         ids |-> FirstSeen([i \in 1..Len(InputReports) |->
                                               InputReports[i].report_id[1]])]
            /\ with_id # {} /\ with_id # 1..Len(InputReports) =>
                  ids.result = "MissingIdError"

\* four input reports in and after a nested collection, one of them repeating
\* an ID, and an output report with an ID
C18_Witness ==
    /\ IdsReturned
    /\ ids = [result |-> "Ok", ids |-> <<1, 2, 4>>]
    /\ Len(InputReports) = 4
    /\ \E i \in 1..Len(collection.items) :
          /\ collection.items[i].variant = "Report"
          /\ collection.items[i].report.main.report_type = "Output"
          /\ collection.items[i].report.report_id # None

\* the reports of the walked collection in depth-first pre-order
WalkedReports == ReportsOf(collection.items)

IterRunning == pc = "iter"

\* C19: an iterator over a Collection yields the reports of the tree, each
\* once, in depth-first pre-order following the item order; after the last
\* report it returns None, and None again on every later call; two
\* iterators over the same Collection yield the same sequence.
C19_IterYieldsPreOrderOnce ==
    IterRunning =>
        \A i \in 1..Len(report_iter) : \A k \in 1..Len(yielded[i]) :
            yielded[i][k] = IF k <= Len(WalkedReports) THEN Some(WalkedReports[k])
                            ELSE None

\* one iterator is exhausted and was asked again, the other has not yet
\* left a collection nested two levels down, and the tree holds a report
\* after an empty collection
C19_Witness ==
    /\ IterRunning
    /\ Len(WalkedReports) >= 4
    /\ Len(yielded[1]) = Len(WalkedReports) + MaxExhausted
    /\ Len(yielded[2]) = 2
    /\ is_some(report_iter[2].subiterator)
    /\ is_some(unwrap(report_iter[2].subiterator).subiterator)
    /\ collection.items[1].variant = "Collection"
    /\ Len(collection.items[1].collection.items) = 0
    /\ collection.items[Len(collection.items)].variant = "Report"

-----------------------------------------------------------------------------
(* Push and Pop in the optimizer *)

RemoveDuplicatesCalled == pc \in {"tags_cleaned", "panic"}

HasPushOrPop(s) == \E i \in 1..Len(s) : s[i].kind \in {"Push", "Pop"}

\* C20 as stated: remove_duplicates returns a result for every tag
\* sequence, Push and Pop included: they are kept like any other tag that
\* is not a repeat, and a Global tag after a Pop is still dropped when its
\* value is the one its slot got before the Pop.
C20_PushPopLikeAnyOtherTag ==
    RemoveDuplicatesCalled =>
        /\ pc = "tags_cleaned"
        /\ tags_cleaned = SelectPositions(tags, {i \in 1..Len(tags) :
                                                    \/ tags[i].kind \in {"Push", "Pop"}
                                                    \/ ~RepeatsPrevious(tags, i)}, 1)

\* C20 as amended: remove_duplicates returns a result exactly for the tag
\* sequences without Push and Pop; on a sequence that contains one it
\* panics in set_tag, which has no arm for these two Global tags.
C20_PanicsExactlyOnPushOrPop ==
    RemoveDuplicatesCalled => (pc = "panic" <=> HasPushOrPop(tags))

\* a Global tag, a Pop, and the same Global tag again
C20_Witness ==
    /\ pc = "panic"
    /\ Len(tags) = 3
    /\ tags[2].kind = "Pop"
    /\ tags[1].kind \in SlotKinds
    /\ tags[3] = tags[1]

-----------------------------------------------------------------------------
(* Properties of the TagGroup walk *)

RECURSIVE LeafTags(_)
\* the tags at the leaves of a TagGroup, left to right
LeafTags(tag_group) ==
    IF tag_group.variant = "Tag" THEN <<tag_group.tag>>
    ELSE IF Len(tag_group.items) = 0 THEN <<>>
    ELSE LeafTags(Head(tag_group.items))
         \o LeafTags([tag_group EXCEPT !.items = Tail(@)])

TagIterRunning == pc = "tag_iter"

\* C21: the iterator of TagGroup::tags yields the leaf tags of the tree left
\* to right, depth first, each once; empty groups contribute nothing; after
\* the last tag next() returns None, and None again on every later call.
C21_TagsAreTheLeavesInOrder ==
    TagIterRunning =>
        \A k \in 1..Len(yielded) :
            yielded[k] = IF k <= Len(LeafTags(tag_groups)) THEN Some(LeafTags(tag_groups)[k])
                         ELSE None

\* an exhausted iterator asked again, over a group that starts with an empty
\* group, holds two empty groups in a row and ends with a leaf three levels down
C21_Witness ==
    /\ TagIterRunning
    /\ Len(LeafTags(tag_groups)) >= 2
    /\ Len(yielded) = Len(LeafTags(tag_groups)) + MaxExhausted
    /\ tag_groups.items = <<group(<<>>), group(<<group(<<>>), group(<<>>)>>),
                            group(<<group(<<group(<<>>), Leaf(Tag("ReportCount", U32FromNat(8)))>>),
                                    Leaf(Tag("UsageId", 1))>>)>>

-----------------------------------------------------------------------------
(* Properties of the usage tags of a report *)

\* the tags of one range by the value len() returns: one usage for 1, the
\* minimum and the maximum for more
RangeTags(range) ==
    IF UsageRange_len(range).value = U32FromNat(1)
    THEN UsageTags(range.min, "UsageId", "ExtendedUsage")
    ELSE UsageTags(range.min, "UsageMinimumId", "ExtendedUsageMinimum")
         \o UsageTags(range.max, "UsageMaximumId", "ExtendedUsageMaximum")

RECURSIVE UsageSetTags(_)
\* the tags of the ranges of a usage set in insertion order
UsageSetTags(set) ==
    IF Len(set) = 0 THEN <<>>
    ELSE RangeTags(Head(set)) \o UsageSetTags(Tail(set))

\* the tags of a report's group that come before its LogicalMinimum
BeforeLogicalMinimum(g) ==
    LET at == CHOOSE i \in 1..Len(g) :
                  /\ g[i].kind = "LogicalMinimum"
                  /\ \A j \in 1..(i - 1) : g[j].kind # "LogicalMinimum"
    IN  SubSeq(g, 1, at - 1)

\* len() of every range of the set returned 1 or more
LenAtLeast1(set) == \A i \in 1..Len(set) : UsageRange_len(set[i]).value # U32Zero

\* C22: every UsageRange of a report's usage set emits, when len() is 1, one
\* Usage group for its min (UsagePage and UsageId, or ExtendedUsage) and,
\* when len() is more than 1, a UsageMinimum group for min followed by a
\* UsageMaximum group for max, each in the Standard or Extended form of that
\* endpoint; the ranges are emitted in insertion order.
C22_UsageRangeTags ==
    Flattened =>
        LET reports == ReportsOf(collection.items)
            ends == ReportMainPositions(tags)
        IN  \A i \in ends :
               LET report == reports[Cardinality({j \in ends : j <= i})] IN
               LenAtLeast1(report.usage_set) =>
                   BeforeLogicalMinimum(GroupEndingAt(tags, i)) = UsageSetTags(report.usage_set)

\* a report whose first range has a Standard min and an Extended max and
\* whose second range is one usage
C22_Witness ==
    /\ Flattened
    /\ \E i \in 1..Len(collection.items) :
          /\ collection.items[i].variant = "Report"
          /\ LET set == collection.items[i].report.usage_set IN
             /\ Len(set) = 2
             /\ set[1].min.variant = "Standard" /\ set[1].max.variant = "Extended"
             /\ UsageRange_len(set[1]).value # U32FromNat(1)
             /\ UsageRange_len(set[2]).value = U32FromNat(1)

-----------------------------------------------------------------------------
(* Properties of the encoding of single tags *)

ExtendedUsageKinds == {"ExtendedUsage", "ExtendedUsageMinimum", "ExtendedUsageMaximum"}
UsageIdKinds == {"UsageId", "UsageMinimumId", "UsageMaximumId"}

\* C23: an ExtendedUsage, ExtendedUsageMinimum or ExtendedUsageMaximum tag is
\* encoded with size code 3 and 4 data bytes whatever its value, and a
\* UsageId, UsageMinimumId or UsageMaximumId tag never with 4 data bytes.
C23_ExtendedUsageKeepsFourBytes ==
    Encoded =>
        LET tag == tags_cleaned[1] IN
        /\ tag.kind \in ExtendedUsageKinds =>
              /\ bytes[1] % 4 = 3
              /\ Len(bytes) = 5
              /\ SubSeq(bytes, 2, 5) = to_le_bytes(payload(tag))
        /\ tag.kind \in UsageIdKinds => bytes[1] % 4 # 3 /\ Len(bytes) < 5

\* an extended usage below 256, encoded
C23_Witness ==
    /\ Encoded
    /\ tags_cleaned[1].kind \in ExtendedUsageKinds
    /\ FitsU8(payload(tags_cleaned[1]))
    /\ Len(bytes) = 5

TriedFrom == field_args # None /\ field_args.call = "try_from" /\ pc # "i8"

\* the 4-bit two's-complement nibble of e, sign-extended into a byte
SignExtendedNibble(e) == IF e < 0 THEN 256 + e ELSE e

\* C24 as stated: UnitExponent::try_from(v) succeeds exactly for v in
\* [-4, 3], and Tag::UnitExponent(e) is encoded as 0x55 and one data byte
\* that holds the nibble of e sign-extended into a byte.
C24_UnitExponentByteSignExtended ==
    TriedFrom =>
        /\ pc = "TryFromIntError" <=> field_args.value \notin -4..3
        /\ pc = "bytes" => bytes = <<85, SignExtendedNibble(field_args.value)>>

\* C24 as amended: UnitExponent::try_from(v) succeeds exactly for v in
\* [-4, 3], and Tag::UnitExponent(e) is encoded as 0x55 and one data byte
\* that holds the nibble of e in its low four bits and zero in its high
\* four bits (e & 0xF).
C24_UnitExponentByteIsNibble ==
    TriedFrom =>
        /\ pc = "TryFromIntError" <=> field_args.value \notin -4..3
        /\ pc # "TryFromIntError" => field_value = Some(field_args.value)
        /\ pc = "bytes" => bytes = <<85, (field_args.value + 16) % 16>>

\* the exponent -4, encoded
C24_Witness ==
    /\ TriedFrom
    /\ pc = "bytes"
    /\ field_args.value = -4
    /\ bytes = <<85, 12>>

-----------------------------------------------------------------------------
(* Properties of copy_data_from_slice on short buffers *)

\* bit k of the buffer padded with zero bytes
PaddedBit(buffer, k) == IF k < 8 * Len(buffer) THEN BufferBit(buffer, k) ELSE 0

\* the n bits from source_bit_offset on of the padded buffer, at position shift
PaddedWindowValue(buffer, source_bit_offset, n, shift) ==
    [i \in 0..31 |-> IF shift <= i /\ i < shift + n
                     THEN PaddedBit(buffer, source_bit_offset + i - shift) ELSE 0]

\* C25: copy_data_from_slice does not fail on a buffer that ends before the
\* last bit of the window, also one that ends before the window's first
\* byte or is empty: the missing bits are taken as zero, and the staged
\* value is the one the buffer padded with zero bytes gives.
C25_ShortBufferReadsAsZeros ==
    (/\ AfterCopy
     /\ ~CoversWindow(rv_args.buffer, rv_args.source_bit_offset, U32ToNat(unwrap(rv).bit_size))) =>
        /\ rv_result = "Ok"
        /\ unwrap(rv).data = PaddedWindowValue(rv_args.buffer, rv_args.source_bit_offset,
                                               U32ToNat(unwrap(rv).bit_size),
                                               BitsToNat(unwrap(rv).bit_offset, 0, 3))

-----------------------------------------------------------------------------
(* Properties of deduplication as a replay of the global state *)

\* the positions of the Main tags of s, and the k-th of them
MainPositions(s) == {i \in 1..Len(s) : tag_type(s[i]) = "Main"}
KthMain(s, k) ==
    CHOOSE i \in MainPositions(s) : Cardinality({j \in MainPositions(s) : j <= i}) = k

\* the slot of `kind` in a HID global-state table after the first n tags of
\* s: the last Global tag of that kind among them, if any
SlotAfter(s, n, kind) ==
    LET set == {j \in 1..n : s[j].kind = kind} IN
    IF set = {} THEN None
    ELSE Some(s[CHOOSE j \in set : \A k \in set : k <= j])

\* the Local tags of s after its (k-1)-th and before its k-th Main tag
LocalsBeforeMain(s, k) ==
    LET from == IF k = 1 THEN 1 ELSE KthMain(s, k - 1) + 1
        to == IF k > Cardinality(MainPositions(s)) THEN Len(s) ELSE KthMain(s, k) - 1
    IN  SelectPositions(SubSeq(s, from, to),
                        {i \in 1..(to - from + 1) : tag_type(s[from + i - 1]) = "Local"}, 1)

\* C26: for a tag sequence without Push and Pop, the input and the output
\* of remove_duplicates have the same Main tags, give the same contents of a
\* HID global-state table at every Main tag, and have the same Local tags
\* between consecutive Main tags.
C26_DeduplicationKeepsGlobalState ==
    Optimized =>
        LET n == Cardinality(MainPositions(tags)) IN
        /\ Cardinality(MainPositions(tags_cleaned)) = n
        /\ \A k \in 1..n :
              /\ tags_cleaned[KthMain(tags_cleaned, k)] = tags[KthMain(tags, k)]
              /\ \A kind \in SlotKinds :
                    SlotAfter(tags_cleaned, KthMain(tags_cleaned, k), kind)
                        = SlotAfter(tags, KthMain(tags, k), kind)
        /\ \A k \in 1..(n + 1) :
              LocalsBeforeMain(tags_cleaned, k) = LocalsBeforeMain(tags, k)

\* a Global tag, another value of its kind, the first value again, then a
\* Main tag: nothing is dropped and the slot at the Main tag is the first value
C26_Witness ==
    /\ Optimized
    /\ Len(tags) = 4
    /\ tags[1].kind \in SlotKinds
    /\ tags[2].kind = tags[1].kind /\ tags[2] # tags[1]
    /\ tags[3] = tags[1]
    /\ tag_type(tags[4]) = "Main"
    /\ tags_cleaned = tags

-----------------------------------------------------------------------------
(* Properties of the nesting of Collection and EndCollection *)

RECURSIVE CollectionsIn(_)
\* the number of collections of the tree of c, c included
CollectionsIn(c) ==
    LET nested(items) ==
            {i \in 1..Len(items) : items[i].variant = "Collection"}
        RECURSIVE sum(_)
        sum(set) == IF set = {} THEN 0
                    ELSE LET i == CHOOSE i \in set : TRUE
                         IN  CollectionsIn(c.items[i].collection) + sum(set \ {i})
    IN  1 + sum(nested(c.items))

\* the collections open after the first n tags of s
OpenAfter(s, n) ==
    Cardinality({i \in 1..n : s[i].kind = "Collection"})
    - Cardinality({i \in 1..n : s[i].kind = "EndCollection"})

\* s nests the collections of c properly
ProperlyNested(s, c) ==
    /\ \A n \in 0..Len(s) : OpenAfter(s, n) >= 0
    /\ OpenAfter(s, Len(s)) = 0
    /\ Cardinality({i \in 1..Len(s) : s[i].kind = "Collection"}) = CollectionsIn(c)
    /\ s[Len(s)].kind = "EndCollection"
    /\ \A i \in 1..Len(s) : s[i].kind \in ReportMainKinds => OpenAfter(s, i) >= 1

\* C27: in the tag sequence Collection::into_bytes encodes, before and
\* after deduplication, the EndCollection tags never outnumber the
\* Collection tags in a prefix, both number the collections of the tree, the
\* last tag is EndCollection, and every Input, Output and Feature tag lies
\* inside an open collection.
C27_CollectionsProperlyNested ==
    /\ Flattened => ProperlyNested(tags, collection)
    /\ Optimized => ProperlyNested(tags_cleaned, collection)

\* the deduplicated tags of a tree of at least three collections, with a
\* report after a nested collection
C27_Witness ==
    /\ Optimized
    /\ Len(tags_cleaned) < Len(tags)
    /\ CollectionsIn(collection) >= 3
    /\ \E i \in 2..Len(collection.items) :
          /\ collection.items[i].variant = "Report"
          /\ collection.items[i - 1].variant = "Collection"

-----------------------------------------------------------------------------
(* Properties of the staged values *)

\* n < x, for a small number n and a u32 x
U32Above(x, n) == (\E j \in 6..31 : x[j] = 1) \/ BitsToNat(x, 0, 6) > n

\* no bit of the staged value lies outside
\* [bit_offset mod 8, bit_offset mod 8 + bit_size)
InWindow(v) ==
    \A i \in 0..31 :
        v.data[i] = 1 =>
            /\ i >= internal_offset(v.bit_offset)
            /\ U32Above(v.bit_size, i - internal_offset(v.bit_offset))

\* the staged values a state holds
StagedVariables ==
    IF pc = "variable" /\ rv # None THEN {unwrap(rv)}
    ELSE IF pc \in {"format", "format_bytes", "into_bytes_panic"} /\ format # None
    THEN {format.reports[k] : k \in 1..Len(format.reports)}
    ELSE {}

\* what clear leaves of a variable: its data are 0, the rest is as before
Cleared(before, after) ==
    /\ after.data = U32Zero
    /\ after.bit_offset = before.bit_offset
    /\ after.bit_size = before.bit_size

\* a step of ReportVariable::clear or of ReportFormat::clear
ClearKeepsTheLayout ==
    /\ pc = "variable" /\ rv_args'.call = "clear" => Cleared(unwrap(rv), unwrap(rv'))
    /\ pc = "format" /\ FormatClear =>
          /\ count(format') = count(format)
          /\ \A k \in 1..count(format) : Cleared(format.reports[k], format'.reports[k])
          /\ format'.bit_size = format.bit_size
          /\ format'.report_id = format.report_id

\* C28: after any sequence of set_unsigned, set_signed,
\* copy_data_from_slice and clear calls, failed ones included, a staged
\* value has no bit outside [bit_offset mod 8, bit_offset mod 8 + bit_size);
\* clear sets every staged value to 0 and keeps the bit offsets, the bit
\* sizes, the number of variables, the total bit size and the report_id.
C28_StagedValueStaysInItsWindow ==
    /\ [](\A v \in StagedVariables : InWindow(v))
    /\ [][ClearKeepsTheLayout]_vars

\* a negative value staged by set_signed in a field that starts inside a
\* byte, after an earlier call has failed or another has written the field
C28_Witness ==
    /\ AfterSetSigned /\ rv_result = "Ok" /\ rv_args.signed < 0
    /\ internal_offset(unwrap(rv).bit_offset) > 0
    /\ U32ToNat(unwrap(rv).bit_size) \in 1..28
    /\ unwrap(rv).data # U32Zero

-----------------------------------------------------------------------------
(* Properties of the calls that fail *)

\* a step of a call that returns an error leaves what the call would have
\* changed as it was; the steps that end with DataOutOfBoundsError are those
\* of SetUnsigned and SetSigned, and the ones that end with TooLargeError and
\* keep the format are those of PushEmpty
FailedCallChangesNothing ==
    /\ pc = "variable" /\ rv_args'.call \in {"set_unsigned", "set_signed"}
          /\ rv_result' = "DataOutOfBoundsError" => rv' = rv
    /\ pc' = "format" /\ format_result' = "TooLargeError" =>
          /\ format'.reports = format.reports
          /\ format'.bit_size = format.bit_size

\* C29: set_unsigned or set_signed returning DataOutOfBoundsError leaves
\* the staged value as it was, and push_empty returning TooLargeError leaves
\* the list of variables and the total bit size as they were.
C29_FailedCallsLeaveTheState == [][FailedCallChangesNothing]_vars

\* a value that does not fit was refused and the value staged before is
\* still there
C29_Witness ==
    /\ AfterSetUnsigned /\ rv_result = "DataOutOfBoundsError"
    /\ unwrap(rv).data # U32Zero

-----------------------------------------------------------------------------
(* Properties of ReportFlags *)

\* the accessor named like a mutator: as_x and is_x, with_x and has_x or
\* can_x, without_x and has_no_x or cannot_x
LikeNamed ==
    [as_constant |-> "is_constant", as_data |-> "is_data",
     as_variable |-> "is_variable", as_array |-> "is_array",
     as_relative |-> "is_relative", as_absolute |-> "is_absolute",
     with_wrap |-> "can_wrap", without_wrap |-> "cannot_wrap",
     as_nonlinear |-> "is_nonlinear", as_linear |-> "is_linear",
     with_preferred_state |-> "has_preferred_state",
     without_preferred_state |-> "has_no_preferred_state",
     with_null_state |-> "has_null_state",
     without_null_position |-> "has_no_null_position",
     as_volatile |-> "is_volatile", as_nonvolatile |-> "is_nonvolatile",
     as_buffered_bytes |-> "is_buffered_bytes", as_bit_field |-> "is_bit_field"]

\* a mutator has been called on field_args.self and returned field_value
MutatorCalled ==
    pc = "flags" /\ field_args # None /\ field_args.call \in DOMAIN LikeNamed

\* the bit of the flag a mutator is about
BitOf(name) == (CHOOSE r \in impl_report_flags : name \in {r.set, r.unset}).bit

\* C30: each mutator of ReportFlags changes no bit but that of its flag,
\* and the accessor named like it is true of its result: in particular
\* flags.with_preferred_state().has_preferred_state() and
\* flags.without_preferred_state().has_no_preferred_state() are true.
C30_MutatorsAgreeWithAccessors ==
    MutatorCalled =>
        LET flags == unwrap(field_value) IN
        /\ ReportFlags_get(flags, LikeNamed[field_args.call])
        /\ \A i \in 0..31 :
              i # BitOf(field_args.call) => flags[i] = field_args.self[i]

\* what the rows give: the accessor named like a mutator is true of its
\* result for every flag but the preferred state, and false for that one
MutatorsAgreeButPreferredState ==
    MutatorCalled =>
        LET flags == unwrap(field_value) IN
        /\ ReportFlags_get(flags, LikeNamed[field_args.call]) <=> BitOf(field_args.call) # 5
        /\ \A i \in 0..31 :
              i # BitOf(field_args.call) => flags[i] = field_args.self[i]

=============================================================================
